---- MODULE Spec2Model ----
(***************************************************************************)
(* A model of the query-compilation pipeline of bigdata_agent: the intent  *)
(* recognizer, the query analyzer, the SQL generator, the task builder,    *)
(* the result processor and the agent that chains them.                    *)
(*                                                                         *)
(* Text is modelled character by character.  A Python str is a sequence of *)
(* characters; an ASCII character is the one-letter string itself ("a",    *)
(* "(", " "), a Chinese character is written as its pinyin (always two or  *)
(* more letters, e.g. "tong" "ji" for the two characters of the keyword    *)
(* meaning "statistics"); the comment next to each literal gives the       *)
(* original text.  Numbers with a fractional part are kept as integers in  *)
(* units of 1/Unit.                                                        *)
(***************************************************************************)
EXTENDS Integers, Sequences, FiniteSets, TLC

VARIABLES
  call,     \* the operation applied last, with its arguments
  ret,      \* what that operation returned (or the exception it raised)
  agent,    \* the fields of the BigDataAgent object
  effects,  \* the collaborators the operation invoked, in order
  locals    \* the local variables of a batch_query in progress

vars == <<call, ret, agent, effects, locals>>

----------------------------------------------------------------------------
(* Bounds of the explored input space *)

\* a request text is the concatenation of at most MaxFrags fragments
MaxFrags == 2

\* a text given to the query analyzer is the concatenation of at most
\* MaxQueryFrags fragments
MaxQueryFrags == 2

\* an analyzed query given to the SQL generator has at most MaxConds conditions
MaxConds == 2

\* the cost model is given queries of at most MaxCondCount conditions and
\* MaxGroupBy group-by fields
MaxCondCount == 4

MaxGroupBy == 3

\* result sets of at most MaxRows rows are paginated
MaxRows == 4

\* a batch has at most MaxBatch requests
MaxBatch == 2

----------------------------------------------------------------------------
(* Python str operations on character sequences *)

UpperLetters ==
  <<"A","B","C","D","E","F","G","H","I","J","K","L","M",
    "N","O","P","Q","R","S","T","U","V","W","X","Y","Z">>

LowerLetters ==
  <<"a","b","c","d","e","f","g","h","i","j","k","l","m",
    "n","o","p","q","r","s","t","u","v","w","x","y","z">>

Digits == <<"0","1","2","3","4","5","6","7","8","9">>

\* the index of c in the sequence t, 0 when c does not occur
IndexOf(c, t) ==
  IF \E i \in 1..Len(t) : t[i] = c
    THEN CHOOSE i \in 1..Len(t) : t[i] = c
    ELSE 0

\* str.lower(): only cased characters change
LowerChar(c) ==
  IF IndexOf(c, UpperLetters) > 0 THEN LowerLetters[IndexOf(c, UpperLetters)] ELSE c

Lower(s) == [i \in 1..Len(s) |-> LowerChar(s[i])]

\* str.upper()
UpperChar(c) ==
  IF IndexOf(c, LowerLetters) > 0 THEN UpperLetters[IndexOf(c, LowerLetters)] ELSE c

Upper(s) == [i \in 1..Len(s) |-> UpperChar(s[i])]

\* sub in s
Contains(s, sub) ==
  \E i \in 0..(Len(s) - Len(sub)) : SubSeq(s, i + 1, i + Len(sub)) = sub

\* s.startswith(prefix)
StartsWith(s, prefix) ==
  Len(prefix) <= Len(s) /\ SubSeq(s, 1, Len(prefix)) = prefix

\* s.count(c) for a single character c
CountChar(s, c) == Cardinality({i \in 1..Len(s) : s[i] = c})

IsDigit(c) == IndexOf(c, Digits) > 0

\* int(s) for a sequence of decimal digits
RECURSIVE ParseInt(_)
ParseInt(s) ==
  IF s = <<>> THEN 0
  ELSE 10 * ParseInt(SubSeq(s, 1, Len(s) - 1)) + (IndexOf(s[Len(s)], Digits) - 1)

\* re.findall(r'\d+', s)[0]: the first maximal run of digits, <<>> when s has none
FirstNumber(s) ==
  IF \E i \in 1..Len(s) : IsDigit(s[i])
    THEN LET first == CHOOSE i \in 1..Len(s) :
                        IsDigit(s[i]) /\ \A j \in 1..(i - 1) : ~IsDigit(s[j])
             last  == CHOOSE j \in first..Len(s) :
                        /\ \A k \in first..j : IsDigit(s[k])
                        /\ (j = Len(s) \/ ~IsDigit(s[j + 1]))
         IN  SubSeq(s, first, last)
    ELSE <<>>

\* dict.get(key, default) on a dict modelled as a function
Get(d, key, default) == IF key \in DOMAIN d THEN d[key] ELSE default

\* a dict with the given value at the given key, nothing when absent
Field(key, present, value) == IF present THEN [k \in {key} |-> value] ELSE <<>>

----------------------------------------------------------------------------
(* nlp/intent_recognizer.py *)

\* one unit of the fixed-point representation of fractional numbers: 1.0
Unit == 840

\* QueryIntent values, in the insertion order of the intent_keywords dict
IntentOrder ==
  <<"statistics", "analysis", "trend", "comparison", "filter",
    "aggregation", "ranking", "distribution", "correlation">>

QueryIntent == {IntentOrder[i] : i \in 1..Len(IntentOrder)} \cup {"unknown"}

intent_keywords ==
  [statistics |-> <<  (* 统计, 统计数, 数量, 总数, 总计, count, sum, 统计数据 *)
       <<"tong", "ji">>,
       <<"tong", "ji", "shu">>,
       <<"shu", "liang">>,
       <<"zong", "shu">>,
       <<"zong", "ji">>,
       <<"c", "o", "u", "n", "t">>,
       <<"s", "u", "m">>,
       <<"tong", "ji", "shu", "ju">>
     >>,
   analysis |-> <<  (* 分析, 分析数据, 数据分析, 深入分析, 详细分析 *)
       <<"fen", "xi">>,
       <<"fen", "xi", "shu", "ju">>,
       <<"shu", "ju", "fen", "xi">>,
       <<"shen", "ru", "fen", "xi">>,
       <<"xiang", "xi4", "fen", "xi">>
     >>,
   trend |-> <<  (* 趋势, 变化趋势, 发展趋势, 时间趋势, 历史趋势 *)
       <<"qu", "shi4">>,
       <<"bian", "hua", "qu", "shi4">>,
       <<"fa", "zhan", "qu", "shi4">>,
       <<"shi2", "jian", "qu", "shi4">>,
       <<"li", "shi3", "qu", "shi4">>
     >>,
   comparison |-> <<  (* 对比, 比较, 对比分析, 差异, 差距, 对比不同 *)
       <<"dui", "bi">>,
       <<"bi", "jiao">>,
       <<"dui", "bi", "fen", "xi">>,
       <<"cha", "yi4">>,
       <<"cha", "ju4">>,
       <<"dui", "bi", "bu", "tong2">>
     >>,
   filter |-> <<  (* 筛选, 过滤, 查找, 查询, 搜索, where, 筛选出 *)
       <<"shai", "xuan">>,
       <<"guo", "lv">>,
       <<"cha2", "zhao">>,
       <<"cha2", "xun">>,
       <<"sou", "suo">>,
       <<"w", "h", "e", "r", "e">>,
       <<"shai", "xuan", "chu">>
     >>,
   aggregation |-> <<  (* 聚合, 汇总, 分组汇总, group by, 分组统计 *)
       <<"ju3", "he">>,
       <<"hui", "zong">>,
       <<"fen", "zu", "hui", "zong">>,
       <<"g", "r", "o", "u", "p", " ", "b", "y">>,
       <<"fen", "zu", "tong", "ji">>
     >>,
   ranking |-> <<  (* 排名, 排序, top, 前几名, 排名靠前, 最, 第 *)
       <<"pai", "ming">>,
       <<"pai", "xu">>,
       <<"t", "o", "p">>,
       <<"qian", "ji3", "ming">>,
       <<"pai", "ming", "kao", "qian">>,
       <<"zui">>,
       <<"di">>
     >>,
   distribution |-> <<  (* 分布, 分布情况, 分布分析, 占比, 比例 *)
       <<"fen", "bu4">>,
       <<"fen", "bu4", "qing", "kuang">>,
       <<"fen", "bu4", "fen", "xi">>,
       <<"zhan4", "bi">>,
       <<"bi", "li4">>
     >>,
   correlation |-> <<  (* 相关性, 相关, 关联, 关系, 相关分析 *)
       <<"xiang1", "guan", "xing">>,
       <<"xiang1", "guan">>,
       <<"guan", "lian">>,
       <<"guan", "xi3">>,
       <<"xiang1", "guan", "fen", "xi">>
     >> ]

\* the time keywords with the longer phrases before their prefixes
time_keywords_LongestFirst ==
  <<
    <<"zui", "jin4", "7", "tian">>,  \* 最近7天
    <<"zui", "jin4", "3", "0", "tian">>,  \* 最近30天
    <<"guo", "qu4", "yi", "zhou">>,  \* 过去一周
    <<"guo", "qu4", "yi", "ge", "yue">>,  \* 过去一个月
    <<"jin", "tian">>,  \* 今天
    <<"zuo", "tian">>,  \* 昨天
    <<"zui", "jin4">>,  \* 最近
    <<"guo", "qu4">>,  \* 过去
    <<"wei", "lai">>,  \* 未来
    <<"ben", "zhou">>,  \* 本周
    <<"shang", "zhou">>,  \* 上周
    <<"ben", "yue">>,  \* 本月
    <<"shang", "yue">>,  \* 上月
    <<"jin", "nian">>,  \* 今年
    <<"qu4", "nian">>  \* 去年
  >>

time_keywords ==
  <<
    <<"jin", "tian">>,  \* 今天
    <<"zuo", "tian">>,  \* 昨天
    <<"zui", "jin4">>,  \* 最近
    <<"guo", "qu4">>,  \* 过去
    <<"wei", "lai">>,  \* 未来
    <<"ben", "zhou">>,  \* 本周
    <<"shang", "zhou">>,  \* 上周
    <<"ben", "yue">>,  \* 本月
    <<"shang", "yue">>,  \* 上月
    <<"jin", "nian">>,  \* 今年
    <<"qu4", "nian">>,  \* 去年
    <<"zui", "jin4", "7", "tian">>,  \* 最近7天
    <<"zui", "jin4", "3", "0", "tian">>,  \* 最近30天
    <<"guo", "qu4", "yi", "zhou">>,  \* 过去一周
    <<"guo", "qu4", "yi", "ge", "yue">>   \* 过去一个月
  >>

aggregation_keywords ==
  <<
    <<"qiu", "he2">>,  \* 求和
    <<"ping", "jun">>,  \* 平均
    <<"zui", "da">>,  \* 最大
    <<"zui", "xiao">>,  \* 最小
    <<"ji", "shu">>,  \* 计数
    <<"zong", "ji">>,  \* 总计
    <<"jun", "zhi">>,  \* 均值
    <<"ping", "jun", "zhi">>   \* 平均值
  >>

\* the score loop of recognize_intent: how many keywords of the intent occur
\* in the lower-cased query
IntentScore(intent, query) ==
  Cardinality({k \in 1..Len(intent_keywords[intent]) :
                 Contains(Lower(query), Lower(intent_keywords[intent][k]))})

RECURSIVE MaxKey_LastWins(_, _, _)
\* MaxKey with the comparison >= in place of >: among equal scores the last
\* key of the dict wins
MaxKey_LastWins(scores, i, best) ==
  IF i > Len(IntentOrder) THEN best
  ELSE MaxKey_LastWins(scores, i + 1,
              IF scores[IntentOrder[i]] >= scores[best] THEN IntentOrder[i] ELSE best)

\* max(intent_scores, key=intent_scores.get): the scan keeps the first key
\* whose value is strictly greater than everything seen before it
RECURSIVE MaxKey(_, _, _)
MaxKey(scores, i, best) ==
  IF i > Len(IntentOrder) THEN best
  ELSE MaxKey(scores, i + 1,
              IF scores[IntentOrder[i]] > scores[best] THEN IntentOrder[i] ELSE best)

\* the first element of kws occurring in query, <<>> when none does
FirstKeyword(kws, query) ==
  IF \E i \in 1..Len(kws) : Contains(query, kws[i])
    THEN kws[CHOOSE i \in 1..Len(kws) :
               Contains(query, kws[i]) /\ \A j \in 1..(i - 1) : ~Contains(query, kws[j])]
    ELSE <<>>

Max2(a, b) == IF a >= b THEN a ELSE b

Min2(a, b) == IF a <= b THEN a ELSE b

\* the parameters dict: a function whose domain is the set of keys present
_extract_parameters(query) ==
  LET time_kw == FirstKeyword(time_keywords, query)
      agg_kw  == FirstKeyword(aggregation_keywords, query)
      number  == FirstNumber(query)
      p1 == IF time_kw # <<>> THEN [k \in {"time_range"} |-> time_kw] ELSE <<>>
      p2 == IF agg_kw # <<>> THEN [k \in {"aggregation"} |-> agg_kw] ELSE <<>>
      p3 == IF number # <<>> THEN [k \in {"limit"} |-> ParseInt(number)] ELSE <<>>
      p4 == IF Contains(query, <<"yong", "hu">>) THEN [k \in {"entity"} |-> <<"u","s","e","r">>]
            ELSE IF Contains(query, <<"ding", "dan">>) THEN [k \in {"entity"} |-> <<"o","r","d","e","r">>]
            ELSE IF Contains(query, <<"shang1", "pin">>) THEN [k \in {"entity"} |-> <<"p","r","o","d","u","c","t">>]
            ELSE <<>>
  IN  p1 @@ p2 @@ p3 @@ p4

\* recognize_intent returning the raw score of the best intent as its
\* confidence: no division by the keyword count, no min(confidence, 1.0)
recognize_intent_RawScore(query) ==
  LET intent_scores == [intent \in {IntentOrder[i] : i \in 1..Len(IntentOrder)} |->
                          IntentScore(intent, query)]
      best_intent   == MaxKey(intent_scores, 2, IntentOrder[1])
      confidence    == intent_scores[best_intent] * Unit
      no_match      == confidence = 0
  IN  [intent     |-> IF no_match THEN "statistics" ELSE best_intent,
       confidence |-> IF no_match THEN Unit \div 2 ELSE confidence,
       parameters |-> _extract_parameters(query),
       raw_query  |-> query]

recognize_intent(query) ==
  LET intent_scores == [intent \in {IntentOrder[i] : i \in 1..Len(IntentOrder)} |->
                          IntentScore(intent, query)]
      best_intent   == MaxKey(intent_scores, 2, IntentOrder[1])
      confidence    == (intent_scores[best_intent] * Unit)
                         \div Max2(1, Len(intent_keywords[best_intent]))
      no_match      == confidence = 0
  IN  [intent     |-> IF no_match THEN "statistics" ELSE best_intent,
       confidence |-> Min2(IF no_match THEN Unit \div 2 ELSE confidence, Unit),
       parameters |-> _extract_parameters(query),
       raw_query  |-> query]

----------------------------------------------------------------------------
(* Python values whose type is only known at run time (what json.loads     *)
(* returns, the values of the analysis dict): a record of a type tag t and *)
(* the value v                                                             *)

PyNone == [t |-> "None", v |-> <<>>]

PyStr(s) == [t |-> "str", v |-> s]

PyInt(n) == [t |-> "int", v |-> n]

PyBool(b) == [t |-> "bool", v |-> b]

\* a float, in units of 1/Unit
PyFloat(n) == [t |-> "float", v |-> n]

\* a list of Python values
PyList(l) == [t |-> "list", v |-> l]

\* a dict with str keys: v is a function from the keys present to values
PyDict(d) == [t |-> "dict", v |-> d]

\* bool(x)
Truthy(x) ==
  CASE x.t = "None" -> FALSE
    [] x.t = "bool" -> x.v
    [] x.t = "int"  -> x.v # 0
    [] x.t = "float" -> x.v # 0
    [] x.t = "str"  -> x.v # <<>>
    [] x.t = "list" -> x.v # <<>>
    [] x.t = "dict" -> DOMAIN x.v # {}

\* `s in x` raises TypeError unless x is a container
InRaises(x) == x.t \notin {"str", "list", "dict"}

\* `s in x` for a str s (a character sequence) and a container x; the keys
\* of the dicts of this model are field names, none of which is a keyword
In(s, x) ==
  CASE x.t = "str"  -> Contains(x.v, s)
    [] x.t = "list" -> \E i \in 1..Len(x.v) : x.v[i] = PyStr(s)
    [] x.t = "dict" -> FALSE

\* x.lower() raises AttributeError unless x is a str
LowerRaises(x) == x.t # "str"

\* the outcome of a call: a returned value ...
Return(value) == [exc |-> "none", value |-> value]

\* ... or a raised exception
Raise(exception) == [exc |-> exception, value |-> PyNone]

----------------------------------------------------------------------------
(* datetime: a date is the ordinal of a day of the year 2024 *)

DaysInMonth == <<31, 29, 31, 30, 31, 30, 31, 31, 30, 31, 30, 31>>

RECURSIVE MonthOf(_, _)
\* the month of the day with ordinal d, counting from month m
MonthOf(d, m) == IF d <= DaysInMonth[m] THEN m ELSE MonthOf(d - DaysInMonth[m], m + 1)

RECURSIVE DayOfMonth(_, _)
DayOfMonth(d, m) == IF d <= DaysInMonth[m] THEN d ELSE DayOfMonth(d - DaysInMonth[m], m + 1)

\* a number below 100 as two decimal digits
TwoDigits(n) == <<Digits[(n \div 10) + 1], Digits[(n % 10) + 1]>>

\* date.strftime('%Y-%m-%d')
strftime(d) ==
  <<"2", "0", "2", "4", "-">> \o TwoDigits(MonthOf(d, 1)) \o <<"-">> \o TwoDigits(DayOfMonth(d, 1))

----------------------------------------------------------------------------
(* nlp/query_analyzer.py *)

\* QueryIntent.value as text
IntentValue ==
  [statistics |-> <<"s", "t", "a", "t", "i", "s", "t", "i", "c", "s">>,
   analysis |-> <<"a", "n", "a", "l", "y", "s", "i", "s">>,
   trend |-> <<"t", "r", "e", "n", "d">>,
   comparison |-> <<"c", "o", "m", "p", "a", "r", "i", "s", "o", "n">>,
   filter |-> <<"f", "i", "l", "t", "e", "r">>,
   aggregation |-> <<"a", "g", "g", "r", "e", "g", "a", "t", "i", "o", "n">>,
   ranking |-> <<"r", "a", "n", "k", "i", "n", "g">>,
   distribution |-> <<"d", "i", "s", "t", "r", "i", "b", "u", "t", "i", "o", "n">>,
   correlation |-> <<"c", "o", "r", "r", "e", "l", "a", "t", "i", "o", "n">>,
   unknown |-> <<"u", "n", "k", "n", "o", "w", "n">>]

DataSource(name, type, table, database) ==
  [name |-> name, type |-> type, table |-> table, database |-> database, path |-> PyNone]

QueryCondition(field, operator, value) ==
  [field |-> field, operator |-> operator, value |-> value, logical_op |-> "AND"]

AggregationConfig(group_by, aggregations) ==
  [group_by |-> group_by, aggregations |-> aggregations]

TimeRange(start_date, end_date, relative_days) ==
  [start_date |-> start_date, end_date |-> end_date, relative_days |-> relative_days]

\* OutputConfig(): the defaults of the dataclass
OutputConfig == [format |-> "json", limit |-> PyNone, sort_by |-> PyNone, sort_order |-> <<"d", "e", "s", "c">>]

HiveDefault(name, table) == DataSource(name, <<"h", "i", "v", "e">>, table, PyStr(<<"d", "e", "f", "a", "u", "l", "t">>))

\* data_source_mapping, in the insertion order of the dict
data_source_mapping ==
  << [key |-> <<"yong", "hu">>, source |-> HiveDefault(<<"u", "s", "e", "r", "s">>, <<"u", "s", "e", "r", "_", "i", "n", "f", "o">>)],  \* 用户
     [key |-> <<"ding", "dan">>, source |-> HiveDefault(<<"o", "r", "d", "e", "r", "s">>, <<"o", "r", "d", "e", "r", "_", "i", "n", "f", "o">>)],  \* 订单
     [key |-> <<"shang1", "pin">>, source |-> HiveDefault(<<"p", "r", "o", "d", "u", "c", "t", "s">>, <<"p", "r", "o", "d", "u", "c", "t", "_", "i", "n", "f", "o">>)],  \* 商品
     [key |-> <<"ri", "zhi4">>, source |-> HiveDefault(<<"l", "o", "g", "s">>, <<"u", "s", "e", "r", "_", "l", "o", "g", "s">>)] >>  \* 日志

\* _llm_deep_analysis whose substituted analysis describes no conditions and
\* no aggregations
_llm_deep_analysis_NoDescriptions(query, intent_result, response) ==
  IF response.kind = "json" THEN response.value
  ELSE PyDict(
    [data_entity         |-> PyStr(Get(intent_result.parameters, "entity", <<"u", "n", "k", "n", "o", "w", "n">>)),
     query_type          |-> PyStr(IntentValue[intent_result.intent]),
     conditions          |-> PyStr(<<>>),
     aggregations        |-> PyStr(<<>>),
     time_range          |-> IF "time_range" \in DOMAIN intent_result.parameters
                               THEN PyStr(intent_result.parameters["time_range"])
                               ELSE PyNone,
     output_requirements |-> PyStr(<<"mo", "ren", "shu1", "chu">>),
     description         |-> PyStr(IntentValue[intent_result.intent] \o <<"cha2", "xun">>)])

\* The NLU round trip.  response is what the collaborator did: kind "raise"
\* (invoke raised), kind "text" (the reply is not valid JSON), or kind "json"
\* with the value json.loads returns.  Both failures end in the except
\* branch, which builds the analysis from the intent result alone.
_llm_deep_analysis(query, intent_result, response) ==
  IF response.kind = "json" THEN response.value
  ELSE PyDict(
    [data_entity         |-> PyStr(Get(intent_result.parameters, "entity", <<"u", "n", "k", "n", "o", "w", "n">>)),
     query_type          |-> PyStr(IntentValue[intent_result.intent]),
     conditions          |-> PyStr(<<"wu", "te", "ding4", "tiao", "jian4">>),  \* 无特定条件
     aggregations        |-> PyStr(<<"wu", "ju3", "he", "cao", "zuo4">>),  \* 无聚合操作
     time_range          |-> IF "time_range" \in DOMAIN intent_result.parameters
                               THEN PyStr(intent_result.parameters["time_range"])
                               ELSE PyNone,
     output_requirements |-> PyStr(<<"mo", "ren", "shu1", "chu">>),  \* 默认输出
     description         |-> PyStr(IntentValue[intent_result.intent] \o <<"cha2", "xun">>)])  \* ..查询

\* llm_analysis.get(key, default); the callers have checked that llm_analysis is a dict
AGet(llm_analysis, key, default) == Get(llm_analysis.v, key, default)

_parse_data_source(query, llm_analysis) ==
  LET entity  == AGet(llm_analysis, "data_entity", PyStr(<<>>))
      Hit(i)  == In(data_source_mapping[i].key, entity)
                   \/ Contains(query, data_source_mapping[i].key)
  IN  IF InRaises(entity) THEN Raise("TypeError")
      ELSE IF \E i \in 1..Len(data_source_mapping) : Hit(i)
        THEN Return(data_source_mapping[
               CHOOSE i \in 1..Len(data_source_mapping) :
                 Hit(i) /\ \A j \in 1..(i - 1) : ~Hit(j)].source)
        ELSE Return(data_source_mapping[1].source)

\* _parse_conditions that derives no condition when the NLU names a time
\* range
_parse_conditions_LeavesWindowToNlu(query, llm_analysis, now) ==
  IF Truthy(AGet(llm_analysis, "time_range", PyNone)) THEN <<>>
  ELSE IF Contains(query, <<"zuo", "tian">>)
    THEN <<QueryCondition(<<"d", "a", "t", "e">>, <<"=">>, PyStr(strftime(now - 1)))>>
  ELSE IF Contains(query, <<"jin", "tian">>)
    THEN <<QueryCondition(<<"d", "a", "t", "e">>, <<"=">>, PyStr(strftime(now)))>>
  ELSE IF Contains(query, <<"zui", "jin4", "7", "tian">>) \/ Contains(query, <<"guo", "qu4", "yi", "zhou">>)
    THEN <<QueryCondition(<<"d", "a", "t", "e">>, <<">", "=">>, PyStr(strftime(now - 7)))>>
  ELSE <<>>

_parse_conditions(query, llm_analysis, now) ==
  IF Contains(query, <<"zuo", "tian">>)  \* 昨天
    THEN <<QueryCondition(<<"d", "a", "t", "e">>, <<"=">>, PyStr(strftime(now - 1)))>>
  ELSE IF Contains(query, <<"jin", "tian">>)  \* 今天
    THEN <<QueryCondition(<<"d", "a", "t", "e">>, <<"=">>, PyStr(strftime(now)))>>
  ELSE IF Contains(query, <<"zui", "jin4", "7", "tian">>) \/ Contains(query, <<"guo", "qu4", "yi", "zhou">>)  \* 最近7天, 过去一周
    THEN <<QueryCondition(<<"d", "a", "t", "e">>, <<">", "=">>, PyStr(strftime(now - 7)))>>
  ELSE <<>>

\* _parse_aggregations whose function calls lack the closing parenthesis
_parse_aggregations_UnclosedCall(query, llm_analysis) ==
  IF \/ Contains(query, <<"fen", "zu">>)
     \/ Contains(query, <<"an">>)
     \/ Contains(Lower(query), <<"g", "r", "o", "u", "p", " ", "b", "y">>)
    THEN LET group_by ==
               IF Contains(query, <<"sheng", "fen4">>) THEN <<<<"p", "r", "o", "v", "i", "n", "c", "e">>>>
               ELSE IF Contains(query, <<"cheng", "shi">>) THEN <<<<"c", "i", "t", "y">>>>
               ELSE IF Contains(query, <<"ri", "qi">>) \/ Contains(query, <<"shi2", "jian">>)
                 THEN <<<<"d", "a", "t", "e">>>>
               ELSE <<>>
             aggregations ==
               IF Contains(query, <<"tong", "ji">>) \/ Contains(query, <<"ji", "shu">>)
                 THEN <<[field |-> <<"c", "o", "u", "n", "t">>, func |-> <<"c", "o", "u", "n", "t", "(", "*">>]>>
               ELSE IF Contains(query, <<"qiu", "he2">>) \/ Contains(query, <<"zong", "ji">>)
                 THEN <<[field |-> <<"t", "o", "t", "a", "l">>, func |-> <<"s", "u", "m", "(", "a", "m", "o", "u", "n", "t">>]>>
               ELSE <<>>
         IN  IF group_by # <<>> \/ aggregations # <<>>
               THEN AggregationConfig(group_by, aggregations)
               ELSE PyNone
    ELSE PyNone

\* the aggregations dict of an AggregationConfig is kept as the sequence of
\* its items in insertion order
_parse_aggregations(query, llm_analysis) ==
  IF \/ Contains(query, <<"fen", "zu">>)  \* 分组
     \/ Contains(query, <<"an">>)  \* 按
     \/ Contains(Lower(query), <<"g", "r", "o", "u", "p", " ", "b", "y">>)
    THEN LET group_by ==
               IF Contains(query, <<"sheng", "fen4">>) THEN <<<<"p", "r", "o", "v", "i", "n", "c", "e">>>>  \* 省份
               ELSE IF Contains(query, <<"cheng", "shi">>) THEN <<<<"c", "i", "t", "y">>>>  \* 城市
               ELSE IF Contains(query, <<"ri", "qi">>) \/ Contains(query, <<"shi2", "jian">>)  \* 日期, 时间
                 THEN <<<<"d", "a", "t", "e">>>>
               ELSE <<>>
             aggregations ==
               IF Contains(query, <<"tong", "ji">>) \/ Contains(query, <<"ji", "shu">>)  \* 统计, 计数
                 THEN <<[field |-> <<"c", "o", "u", "n", "t">>, func |-> <<"c", "o", "u", "n", "t", "(", "*", ")">>]>>
               ELSE IF Contains(query, <<"qiu", "he2">>) \/ Contains(query, <<"zong", "ji">>)  \* 求和, 总计
                 THEN <<[field |-> <<"t", "o", "t", "a", "l">>, func |-> <<"s", "u", "m", "(", "a", "m", "o", "u", "n", "t", ")">>]>>
               ELSE <<>>
         IN  IF group_by # <<>> \/ aggregations # <<>>
               THEN AggregationConfig(group_by, aggregations)
               ELSE PyNone
    ELSE PyNone

\* _parse_time_range that counts the month inclusively: 31 days
_parse_time_range_InclusiveMonth(query, llm_analysis, now) ==
  LET time_range == AGet(llm_analysis, "time_range", PyNone)
      time_desc  == IF Truthy(time_range) THEN time_range
                    ELSE AGet(llm_analysis, "conditions", PyStr(<<>>))
  IN  IF InRaises(time_desc) THEN Raise("TypeError")
      ELSE IF In(<<"zuo", "tian">>, time_desc)
        THEN Return(TimeRange(PyStr(strftime(now - 1)), PyStr(strftime(now - 1)), PyNone))
      ELSE IF In(<<"zui", "jin4", "7", "tian">>, time_desc) \/ In(<<"guo", "qu4", "yi", "zhou">>, time_desc)
        THEN Return(TimeRange(PyNone, PyNone, PyInt(7)))
      ELSE IF In(<<"zui", "jin4", "3", "0", "tian">>, time_desc) \/ In(<<"guo", "qu4", "yi", "ge", "yue">>, time_desc)
        THEN Return(TimeRange(PyNone, PyNone, PyInt(31)))
      ELSE Return(PyNone)

_parse_time_range(query, llm_analysis, now) ==
  LET time_range == AGet(llm_analysis, "time_range", PyNone)
      time_desc  == IF Truthy(time_range) THEN time_range
                    ELSE AGet(llm_analysis, "conditions", PyStr(<<>>))
  IN  IF InRaises(time_desc) THEN Raise("TypeError")
      ELSE IF In(<<"zuo", "tian">>, time_desc)  \* 昨天
        THEN Return(TimeRange(PyStr(strftime(now - 1)), PyStr(strftime(now - 1)), PyNone))
      ELSE IF In(<<"zui", "jin4", "7", "tian">>, time_desc) \/ In(<<"guo", "qu4", "yi", "zhou">>, time_desc)  \* 最近7天, 过去一周
        THEN Return(TimeRange(PyNone, PyNone, PyInt(7)))
      ELSE IF In(<<"zui", "jin4", "3", "0", "tian">>, time_desc) \/ In(<<"guo", "qu4", "yi", "ge", "yue">>, time_desc)  \* 最近30天, 过去一个月
        THEN Return(TimeRange(PyNone, PyNone, PyInt(30)))
      ELSE Return(PyNone)

_parse_output_config(query, llm_analysis) ==
  LET requirements == AGet(llm_analysis, "output_requirements", PyStr(<<>>))
      numbers      == FirstNumber(query)
      limit        == IF numbers # <<>> THEN PyInt(ParseInt(numbers)) ELSE PyNone
      Config(format) == [OutputConfig EXCEPT !.format = format, !.limit = limit]
  IN  IF InRaises(requirements) THEN Raise("TypeError")
      ELSE IF In(<<"tu", "biao">>, requirements) THEN Return(Config("chart"))  \* 图表
      ELSE IF LowerRaises(requirements) THEN Raise("AttributeError")
      ELSE IF Contains(Lower(requirements.v), <<"c", "h", "a", "r", "t">>) THEN Return(Config("chart"))
      ELSE IF Contains(Lower(requirements.v), <<"c", "s", "v">>) THEN Return(Config("csv"))
      ELSE Return(Config("json"))

\* _calculate_confidence without the upper limit of 1.0
_calculate_confidence_Unclamped(intent_result, llm_analysis) ==
  LET Boost(key, amount) ==
        IF Truthy(AGet(llm_analysis, key, PyNone)) THEN amount ELSE 0
      llm_boost == Boost("data_entity", Unit \div 5)
                     + Boost("conditions", Unit \div 10)
                     + Boost("aggregations", Unit \div 10)
  IN  intent_result.confidence + llm_boost

_calculate_confidence(intent_result, llm_analysis) ==
  LET Boost(key, amount) ==
        IF Truthy(AGet(llm_analysis, key, PyNone)) THEN amount ELSE 0
      llm_boost == Boost("data_entity", Unit \div 5)
                     + Boost("conditions", Unit \div 10)
                     + Boost("aggregations", Unit \div 10)
  IN  Min2(intent_result.confidence + llm_boost, Unit)

\* analyze_query with the NLU collaborator's behaviour and the clock as
\* explicit arguments; the first exception ends the call
analyze_query(query, response, now) ==
  LET intent_result == recognize_intent(query)
      llm_analysis  == _llm_deep_analysis(query, intent_result, response)
      data_source   == _parse_data_source(query, llm_analysis)
      time_range    == _parse_time_range(query, llm_analysis, now)
      output_config == _parse_output_config(query, llm_analysis)
  IN  IF llm_analysis.t # "dict" THEN Raise("AttributeError")
      ELSE IF data_source.exc # "none" THEN data_source
      ELSE IF time_range.exc # "none" THEN time_range
      ELSE IF output_config.exc # "none" THEN output_config
      ELSE Return(
        [original_query   |-> query,
         intent_result    |-> intent_result,
         data_source      |-> data_source.value,
         conditions       |-> _parse_conditions(query, llm_analysis, now),
         aggregations     |-> _parse_aggregations(query, llm_analysis),
         time_range       |-> time_range.value,
         output_config    |-> output_config.value,
         description      |-> AGet(llm_analysis, "description", PyStr(<<>>)),
         confidence_score |-> _calculate_confidence(intent_result, llm_analysis)])

----------------------------------------------------------------------------
(* str(), repr() and str.join *)

RECURSIVE NatToStr(_)
\* str(n) for n >= 0
NatToStr(n) == IF n < 10 THEN <<Digits[n + 1]>> ELSE NatToStr(n \div 10) \o <<Digits[(n % 10) + 1]>>

IntToStr(n) == IF n < 0 THEN <<"-">> \o NatToStr(-n) ELSE NatToStr(n)

RECURSIVE Join(_, _)
\* sep.join(parts)
Join(parts, sep) ==
  IF parts = <<>> THEN <<>>
  ELSE IF Len(parts) = 1 THEN parts[1]
  ELSE parts[1] \o sep \o Join(Tail(parts), sep)

RECURSIVE Escape(_, _)
\* the body of repr(str): the quote character in use and the backslash are escaped
Escape(s, quote) ==
  IF s = <<>> THEN <<>>
  ELSE (IF s[1] = quote \/ s[1] = "\\" THEN <<"\\", s[1]>> ELSE <<s[1]>>) \o Escape(Tail(s), quote)

\* repr(s) of a str: single quotes, double quotes when s has a single quote
\* and no double quote
ReprStr(s) ==
  IF Contains(s, <<"'">>) /\ ~Contains(s, <<"\"">>)
    THEN <<"\"">> \o Escape(s, "\"") \o <<"\"">>
    ELSE <<"'">> \o Escape(s, "'") \o <<"'">>

RECURSIVE Repr(_)
\* repr(x)
Repr(x) ==
  CASE x.t = "None" -> <<"N", "o", "n", "e">>
    [] x.t = "int"  -> IntToStr(x.v)
    [] x.t = "str"  -> ReprStr(x.v)
    [] x.t = "list" -> <<"[">> \o Join([i \in 1..Len(x.v) |-> Repr(x.v[i])], <<",", " ">>) \o <<"]">>

\* str(x), what an f-string inserts
Str(x) == IF x.t = "str" THEN x.v ELSE Repr(x)

\* s.strip() of blanks
RECURSIVE Strip(_)
Strip(s) ==
  IF s = <<>> THEN s
  ELSE IF s[1] = " " THEN Strip(Tail(s))
  ELSE IF s[Len(s)] = " " THEN Strip(SubSeq(s, 1, Len(s) - 1))
  ELSE s

----------------------------------------------------------------------------
(* task/sql_generator.py *)

supported_dialects == {<<"h", "i", "v", "e">>, <<"s", "p", "a", "r", "k">>, <<"c", "l", "i", "c", "k", "h", "o", "u", "s", "e">>, <<"p", "r", "e", "s", "t", "o">>}

\* f.split(' as ')[-1]: what follows the last " as " of f, f itself without one
LastAfterAs(f) ==
  LET as == <<" ", "a", "s", " ">>
      at == {i \in 1..(Len(f) - Len(as) + 1) : SubSeq(f, i, i + Len(as) - 1) = as}
  IN  IF at = {} THEN f
      ELSE LET last == CHOOSE i \in at : \A j \in at : j <= i
           IN  SubSeq(f, last + Len(as), Len(f))

RECURSIVE AddGroupFields(_, _)
\* the loop appending the group-by fields not selected under an alias yet
AddGroupFields(select_fields, group_by) ==
  IF group_by = <<>> THEN select_fields
  ELSE AddGroupFields(
         IF \E i \in 1..Len(select_fields) : LastAfterAs(select_fields[i]) = group_by[1]
           THEN select_fields
           ELSE Append(select_fields, group_by[1]),
         Tail(group_by))

_build_select_clause(analyzed_query) ==
  IF analyzed_query.aggregations # PyNone
    THEN LET items == analyzed_query.aggregations.aggregations
             aggregated == [i \in 1..Len(items) |->
                              items[i].func \o <<" ", "a", "s", " ">> \o items[i].field]
         IN  <<"S", "E", "L", "E", "C", "T", " ">> \o
               Join(AddGroupFields(aggregated, analyzed_query.aggregations.group_by), <<",", " ">>)
    ELSE <<"S", "E", "L", "E", "C", "T", " ", "*">>

_build_from_clause(data_source, dialect) ==
  <<"F", "R", "O", "M", " ">> \o
    (IF Truthy(data_source.database) /\ dialect \in {<<"h", "i", "v", "e">>, <<"s", "p", "a", "r", "k">>}
       THEN Str(data_source.database) \o <<".">> \o data_source.table
       ELSE data_source.table)

operator_map(operator) ==
  CASE operator = <<"l", "i", "k", "e">> -> <<"L", "I", "K", "E">>
    [] operator = <<"i", "n">> -> <<"I", "N">>
    [] operator = <<"b", "e", "t", "w", "e", "e", "n">> -> <<"B", "E", "T", "W", "E", "E", "N">>
    [] operator \in {<<"=">>, <<">">>, <<"<">>, <<">", "=">>, <<"<", "=">>} -> operator
    [] OTHER -> <<"=">>

_condition_to_sql(condition) ==
  LET op == operator_map(condition.operator)
      value == condition.value
      value_str ==
        IF op = <<"I", "N">>
          THEN IF value.t = "list"
                 THEN <<"(">> \o Join([i \in 1..Len(value.v) |-> Repr(value.v[i])], <<",", " ">>) \o <<")">>
                 ELSE <<"(">> \o Str(value) \o <<")">>
        ELSE IF op = <<"B", "E", "T", "W", "E", "E", "N">>
          THEN IF value.t = "list" /\ Len(value.v) = 2
                 THEN Str(value.v[1]) \o <<" ", "A", "N", "D", " ">> \o Str(value.v[2])
                 ELSE Str(value)
        ELSE Repr(value)
  IN  condition.field \o <<" ">> \o op \o <<" ">> \o value_str

\* None when the time range yields no bound
_time_range_to_sql(time_range, now) ==
  LET Bound(cmp, date) == <<"d", "a", "t", "e", " ">> \o cmp \o <<" ", "'">> \o date \o <<"'">>
      conditions ==
        IF Truthy(time_range.relative_days)
          THEN << Bound(<<">", "=">>, strftime(now - time_range.relative_days.v)),
                  Bound(<<"<", "=">>, strftime(now)) >>
          ELSE (IF Truthy(time_range.start_date)
                  THEN << Bound(<<">", "=">>, Str(time_range.start_date)) >> ELSE <<>>)
               \o (IF Truthy(time_range.end_date)
                     THEN << Bound(<<"<", "=">>, Str(time_range.end_date)) >> ELSE <<>>)
  IN  IF conditions # <<>> THEN PyStr(Join(conditions, <<" ", "A", "N", "D", " ">>)) ELSE PyNone

\* _build_where_clause that joins with OR as soon as a condition asks for it
_build_where_clause_JoinsByLogicalOp(conditions, time_range, now) ==
  LET from_conditions == [i \in 1..Len(conditions) |-> _condition_to_sql(conditions[i])]
      time_cond == IF time_range # PyNone THEN _time_range_to_sql(time_range, now) ELSE PyNone
      where_conditions ==
        from_conditions \o (IF Truthy(time_cond) THEN <<time_cond.v>> ELSE <<>>)
      joiner == IF \E i \in 1..Len(conditions) : conditions[i].logical_op = "OR"
                  THEN <<" ", "O", "R", " ">> ELSE <<" ", "A", "N", "D", " ">>
  IN  IF where_conditions # <<>> THEN PyStr(Join(where_conditions, joiner)) ELSE PyNone

\* None when there is no predicate
_build_where_clause(conditions, time_range, now) ==
  LET from_conditions == [i \in 1..Len(conditions) |-> _condition_to_sql(conditions[i])]
      time_cond == IF time_range # PyNone THEN _time_range_to_sql(time_range, now) ELSE PyNone
      where_conditions ==
        from_conditions \o (IF Truthy(time_cond) THEN <<time_cond.v>> ELSE <<>>)
  IN  IF where_conditions # <<>> THEN PyStr(Join(where_conditions, <<" ", "A", "N", "D", " ">>)) ELSE PyNone

_build_group_by_clause(aggregations) ==
  IF aggregations # PyNone /\ aggregations.group_by # <<>>
    THEN PyStr(Join(aggregations.group_by, <<",", " ">>))
    ELSE PyNone

_build_order_by_clause(output_config) ==
  IF Truthy(output_config.sort_by)
    THEN PyStr(Str(output_config.sort_by) \o <<" ">> \o Upper(output_config.sort_order))
    ELSE PyNone

_build_limit_clause(output_config) ==
  IF Truthy(output_config.limit) THEN PyStr(Str(output_config.limit)) ELSE PyNone

\* a clause with its keyword when the clause is present
Clause(keyword, clause) == IF Truthy(clause) THEN <<keyword \o <<" ">> \o clause.v>> ELSE <<>>

\* generate_sql that keeps an unsupported dialect as it was requested
generate_sql_KeepsDialect(analyzed_query, requested_dialect, now) ==
  LET sql_parts ==
        << _build_select_clause(analyzed_query),
           _build_from_clause(analyzed_query.data_source, requested_dialect) >>
        \o Clause(<<"W", "H", "E", "R", "E">>,
                  _build_where_clause(analyzed_query.conditions, analyzed_query.time_range, now))
        \o Clause(<<"G", "R", "O", "U", "P", " ", "B", "Y">>, _build_group_by_clause(analyzed_query.aggregations))
        \o Clause(<<"O", "R", "D", "E", "R", " ", "B", "Y">>, _build_order_by_clause(analyzed_query.output_config))
        \o Clause(<<"L", "I", "M", "I", "T">>, _build_limit_clause(analyzed_query.output_config))
  IN  Join(sql_parts, <<" ">>)

generate_sql(analyzed_query, requested_dialect, now) ==
  LET dialect == IF requested_dialect \notin supported_dialects
                   THEN <<"h", "i", "v", "e">> ELSE requested_dialect
      sql_parts ==
        << _build_select_clause(analyzed_query),
           _build_from_clause(analyzed_query.data_source, dialect) >>
        \o Clause(<<"W", "H", "E", "R", "E">>,
                  _build_where_clause(analyzed_query.conditions, analyzed_query.time_range, now))
        \o Clause(<<"G", "R", "O", "U", "P", " ", "B", "Y">>, _build_group_by_clause(analyzed_query.aggregations))
        \o Clause(<<"O", "R", "D", "E", "R", " ", "B", "Y">>, _build_order_by_clause(analyzed_query.output_config))
        \o Clause(<<"L", "I", "M", "I", "T">>, _build_limit_clause(analyzed_query.output_config))
  IN  Join(sql_parts, <<" ">>)

\* the dialect is used as given: no downgrade of an unsupported one here
generate_count_sql(analyzed_query, dialect, now) ==
  LET where_clause ==
        _build_where_clause(analyzed_query.conditions, analyzed_query.time_range, now)
  IN  <<"S", "E", "L", "E", "C", "T", " ", "C", "O", "U", "N", "T", "(", "*", ")", " ", "a", "s", " ", "t", "o", "t", "a", "l", "_", "c", "o", "u", "n", "t", " ">> \o
        _build_from_clause(analyzed_query.data_source, dialect)
        \o (IF Truthy(where_clause) THEN <<" ", "W", "H", "E", "R", "E", " ">> \o where_clause.v ELSE <<>>)

generate_sample_sql(analyzed_query, sample_size, dialect, now) ==
  LET where_clause ==
        _build_where_clause(analyzed_query.conditions, analyzed_query.time_range, now)
  IN  _build_select_clause(analyzed_query) \o <<" ">> \o
        _build_from_clause(analyzed_query.data_source, dialect)
        \o (IF Truthy(where_clause) THEN <<" ", "W", "H", "E", "R", "E", " ">> \o where_clause.v ELSE <<>>)
        \o <<" ", "L", "I", "M", "I", "T", " ">> \o IntToStr(sample_size)

\* validate_sql with an odd number of single quotes reported as an error
validate_sql_QuotesFatal(sql) ==
  LET sql_upper == Upper(sql)
      errors ==
        (IF ~StartsWith(Strip(sql_upper), <<"S", "E", "L", "E", "C", "T">>) THEN <<"must start with SELECT">> ELSE <<>>)
        \o (IF ~Contains(sql_upper, <<"F", "R", "O", "M">>) THEN <<"missing FROM">> ELSE <<>>)
        \o (IF CountChar(sql, "(") # CountChar(sql, ")") THEN <<"parentheses do not match">> ELSE <<>>)
        \o (IF CountChar(sql, "'") % 2 # 0 THEN <<"single quotes may not match">> ELSE <<>>)
  IN  [valid |-> errors = <<>>, warnings |-> <<>>, errors |-> errors]

\* errors and warnings are the lists of the result dict, named in English
validate_sql(sql) ==
  LET sql_upper == Upper(sql)
      errors ==
        (IF ~StartsWith(Strip(sql_upper), <<"S", "E", "L", "E", "C", "T">>) THEN <<"must start with SELECT">> ELSE <<>>)
        \o (IF ~Contains(sql_upper, <<"F", "R", "O", "M">>) THEN <<"missing FROM">> ELSE <<>>)
        \o (IF CountChar(sql, "(") # CountChar(sql, ")") THEN <<"parentheses do not match">> ELSE <<>>)
      warnings ==
        IF CountChar(sql, "'") % 2 # 0 THEN <<"single quotes may not match">> ELSE <<>>
  IN  [valid |-> errors = <<>>, warnings |-> warnings, errors |-> errors]

----------------------------------------------------------------------------
(* task/task_builder.py *)

_determine_task_type(analyzed_query) ==
  LET intent == analyzed_query.intent_result.intent
  IN  CASE intent \in {"analysis", "trend", "comparison", "distribution", "correlation"} -> "analysis"
        [] intent = "aggregation" -> "aggregation"
        [] OTHER -> "query"

\* _calculate_complexity with the condition test off by one (>= 3 for > 3)
_calculate_complexity_OffByOne(analyzed_query) ==
  LET f0 == Unit
      f1 == IF Len(analyzed_query.conditions) >= 3 THEN (f0 * 3) \div 2 ELSE f0
      f2 == IF analyzed_query.aggregations # PyNone THEN f1 * 2 ELSE f1
      f3 == IF analyzed_query.aggregations # PyNone
               /\ Len(analyzed_query.aggregations.group_by) > 2
              THEN (f2 * 3) \div 2 ELSE f2
      f4 == IF analyzed_query.time_range # PyNone
               /\ Truthy(analyzed_query.time_range.relative_days)
               /\ analyzed_query.time_range.relative_days.v > 30
              THEN (f3 * 6) \div 5 ELSE f3
      f5 == IF analyzed_query.intent_result.intent \in {"analysis", "trend", "correlation"}
              THEN (f4 * 3) \div 2 ELSE f4
  IN  Min2(f5, 5 * Unit)

\* the complexity factor, in units of 1/Unit
_calculate_complexity(analyzed_query) ==
  LET f0 == Unit
      f1 == IF Len(analyzed_query.conditions) > 3 THEN (f0 * 3) \div 2 ELSE f0
      f2 == IF analyzed_query.aggregations # PyNone THEN f1 * 2 ELSE f1
      f3 == IF analyzed_query.aggregations # PyNone
               /\ Len(analyzed_query.aggregations.group_by) > 2
              THEN (f2 * 3) \div 2 ELSE f2
      f4 == IF analyzed_query.time_range # PyNone
               /\ Truthy(analyzed_query.time_range.relative_days)
               /\ analyzed_query.time_range.relative_days.v > 30
              THEN (f3 * 6) \div 5 ELSE f3
      f5 == IF analyzed_query.intent_result.intent \in {"analysis", "trend", "correlation"}
              THEN (f4 * 3) \div 2 ELSE f4
  IN  Min2(f5, 5 * Unit)

\* memory, cores and executor instances in units of 1/Unit
_get_resource_limits(analyzed_query, engine_type) ==
  LET complexity_factor == _calculate_complexity(analyzed_query)
  IN  IF complexity_factor > Unit
        THEN [memory_gb          |-> Min2(2 * complexity_factor, 16 * Unit),
              cores              |-> Min2(complexity_factor, 8 * Unit),
              executor_instances |-> Min2(complexity_factor, 4 * Unit)]
        ELSE [memory_gb |-> 2 * Unit, cores |-> Unit, executor_instances |-> Unit]

\* build_task with the clock as an explicit argument; the task id is a fresh
\* uuid, which the model leaves out
build_task(analyzed_query, engine_type, priority, timeout_seconds, now) ==
  LET sql_query  == generate_sql(analyzed_query, engine_type, now)
      count_sql  == generate_count_sql(analyzed_query, engine_type, now)
      sample_sql == generate_sample_sql(analyzed_query, 5, engine_type, now)
      validation_result == validate_sql(sql_query)
  IN  IF ~validation_result.valid THEN Raise("ValueError")
      ELSE Return(
        [task_config       |-> [task_type |-> _determine_task_type(analyzed_query),
                                priority |-> priority,
                                timeout_seconds |-> timeout_seconds,
                                retry_count |-> 0,
                                retry_delay |-> 60],
         analyzed_query    |-> analyzed_query,
         execution_context |-> [engine_type |-> engine_type,
                                resource_limits |->
                                  _get_resource_limits(analyzed_query, engine_type)],
         sql_query         |-> sql_query,
         count_sql         |-> count_sql,
         sample_sql        |-> sample_sql,
         status            |-> "pending"])

----------------------------------------------------------------------------
(* result/formatters.py *)

\* a row of a result set: a dict from column names to values; keys and vals
\* list its items in insertion order
Row(keys, vals) == [t |-> "dict", keys |-> keys, vals |-> vals]

\* key in row
HasKey(row, key) == \E i \in 1..Len(row.keys) : row.keys[i] = key

\* row.get(key, default)
RowGet(row, key, default) ==
  IF HasKey(row, key)
    THEN row.vals[CHOOSE i \in 1..Len(row.keys) : row.keys[i] = key]
    ELSE default

\* list(row.keys())
Keys(row) == PyList([i \in 1..Len(row.keys) |-> PyStr(row.keys[i])])

RECURSIVE MaxWidth(_, _, _)
\* the largest len(str(row.get(col, ''))) over the rows, at least width
MaxWidth(rows, col, width) ==
  IF rows = <<>> THEN width
  ELSE MaxWidth(Tail(rows), col, Max2(width, Len(Str(RowGet(rows[1], col, PyStr(<<>>))))))

JSONFormatter_format(data, columns, analyzed_query) ==
  IF data.t # "list" THEN Raise("TypeError")  \* len(None)
  ELSE Return(PyDict(
    [columns |-> columns,
     rows    |-> data,
     summary |-> PyDict(
       [total_rows |-> PyInt(Len(data.v)),
        query_type |-> PyStr(IntentValue[analyzed_query.intent_result.intent]),
        confidence |-> PyFloat(analyzed_query.confidence_score)])]))

\* what csv.writer writes for one value: None is empty, a str is itself
CsvText(x) == IF x.t = "None" THEN <<>> ELSE Str(x)

RECURSIVE DoubleQuotes(_)
DoubleQuotes(s) ==
  IF s = <<>> THEN <<>>
  ELSE (IF s[1] = "\"" THEN <<"\"", "\"">> ELSE <<s[1]>>) \o DoubleQuotes(Tail(s))

\* QUOTE_MINIMAL: a field with a delimiter, a quote or a line break is quoted
CsvField(s) ==
  IF \E i \in 1..Len(s) : s[i] \in {",", "\"", "\r", "\n"}
    THEN <<"\"">> \o DoubleQuotes(s) \o <<"\"">>
    ELSE s

\* one line of the file; a record of one empty field is written as ""
CsvRecord(fields) ==
  (IF fields = << <<>> >> THEN <<"\"", "\"">>
   ELSE Join([i \in 1..Len(fields) |-> CsvField(fields[i])], <<",">>))
    \o <<"\r", "\n">>

RECURSIVE CsvRows(_, _)
CsvRows(rows, fieldnames) ==
  IF rows = <<>> THEN <<>>
  ELSE CsvRecord([i \in 1..Len(fieldnames) |-> CsvText(RowGet(rows[1], fieldnames[i], PyStr(<<>>)))])
         \o CsvRows(Tail(rows), fieldnames)

CSVFormatter_format(data, columns, analyzed_query) ==
  IF ~Truthy(data) THEN Return(PyStr(<<>>))
  ELSE
    LET cols == IF ~Truthy(columns) THEN Keys(data.v[1]) ELSE columns
        fieldnames == [i \in 1..Len(cols.v) |-> cols.v[i].v]
        \* DictWriter raises on a key that is not a field name
        wrong_fields == \E r \in 1..Len(data.v) : \E k \in 1..Len(data.v[r].keys) :
                          \A i \in 1..Len(fieldnames) : fieldnames[i] # data.v[r].keys[k]
    IN  IF wrong_fields THEN Raise("ValueError")
        ELSE Return(PyStr(CsvRecord(fieldnames) \o CsvRows(data.v, fieldnames)))

TableFormatter_format(data, columns, analyzed_query) ==
  LET cols == IF ~Truthy(columns) /\ Truthy(data) THEN Keys(data.v[1]) ELSE columns
  IN  IF data.t # "list" THEN Raise("TypeError")  \* iterating or len() of None
      ELSE Return(PyDict(
        [type          |-> PyStr(<<"t", "a", "b", "l", "e">>),
         columns       |-> cols,
         rows          |-> data,
         column_widths |-> Row([i \in 1..Len(cols.v) |-> cols.v[i].v],
                               [i \in 1..Len(cols.v) |->
                                  PyInt(Min2(MaxWidth(data.v, cols.v[i].v, Len(cols.v[i].v)), 50))]),
         total_rows    |-> PyInt(Len(data.v))]))

\* the fallback of every chart
_create_table_chart(data, columns) ==
  Return(PyDict(
    [type    |-> PyStr(<<"t", "a", "b", "l", "e">>),
     data    |-> data,
     columns |-> columns,
     message |-> PyStr(<<"shu", "ju", "yi3", "zhuan", "huan", "wei2", "biao", "ge2", "ge2", "shi6">>)]))

\* [row.get(col, 0) for row in data] for each col of columns[1:]; the colours
\* and the options of the chart, which depend on nothing but the column
\* index, are not carried
Datasets(data, columns) ==
  PyList([c \in 1..(Len(columns.v) - 1) |->
    PyDict([label |-> columns.v[c + 1],
            data  |-> PyList([r \in 1..Len(data.v) |->
                        RowGet(data.v[r], columns.v[c + 1].v, PyInt(0))])])])

\* row[columns[0]] raises KeyError on a row without the first column
MissingLabel(data, columns) ==
  \E r \in 1..Len(data.v) : ~HasKey(data.v[r], columns.v[1].v)

_create_bar_chart(data, columns, horizontal) ==
  IF Len(columns.v) < 2 THEN _create_table_chart(data, columns)
  ELSE IF MissingLabel(data, columns) THEN Raise("KeyError")
  ELSE Return(PyDict(
    [type       |-> PyStr(<<"b", "a", "r">>),
     horizontal |-> PyBool(horizontal),
     data       |-> PyDict(
       [labels   |-> PyList([r \in 1..Len(data.v) |-> RowGet(data.v[r], columns.v[1].v, PyNone)]),
        datasets |-> Datasets(data, columns)])]))

_create_line_chart(data, columns) ==
  IF Len(columns.v) < 2 THEN _create_table_chart(data, columns)
  ELSE IF MissingLabel(data, columns) THEN Raise("KeyError")
  ELSE Return(PyDict(
    [type |-> PyStr(<<"l", "i", "n", "e">>),
     data |-> PyDict(
       [labels   |-> PyList([r \in 1..Len(data.v) |->
                       PyStr(Str(RowGet(data.v[r], columns.v[1].v, PyNone)))]),
        datasets |-> Datasets(data, columns)])]))

\* _create_pie_chart that falls back to the table from 20 rows on
_create_pie_chart_OffByOne(data, columns) ==
  IF Len(columns.v) < 2 \/ Len(data.v) >= 20 THEN _create_table_chart(data, columns)
  ELSE IF MissingLabel(data, columns) THEN Raise("KeyError")
  ELSE Return(PyDict(
    [type |-> PyStr(<<"p", "i", "e">>),
     data |-> PyDict(
       [labels   |-> PyList([r \in 1..Len(data.v) |->
                       PyStr(Str(RowGet(data.v[r], columns.v[1].v, PyNone)))]),
        datasets |-> PyList(<<PyDict(
                       [data |-> PyList([r \in 1..Len(data.v) |->
                                   RowGet(data.v[r], columns.v[2].v, PyInt(0))])])>>)])]))

_create_pie_chart(data, columns) ==
  IF Len(columns.v) < 2 \/ Len(data.v) > 20 THEN _create_table_chart(data, columns)
  ELSE IF MissingLabel(data, columns) THEN Raise("KeyError")
  ELSE Return(PyDict(
    [type |-> PyStr(<<"p", "i", "e">>),
     data |-> PyDict(
       [labels   |-> PyList([r \in 1..Len(data.v) |->
                       PyStr(Str(RowGet(data.v[r], columns.v[1].v, PyNone)))]),
        datasets |-> PyList(<<PyDict(
                       [data |-> PyList([r \in 1..Len(data.v) |->
                                   RowGet(data.v[r], columns.v[2].v, PyInt(0))])])>>)])]))

ChartFormatter_format(data, columns, analyzed_query) ==
  LET intent == analyzed_query.intent_result.intent
  IN  IF ~Truthy(data)
        THEN Return(PyDict([type  |-> PyStr(<<"c", "h", "a", "r", "t">>),
                            data  |-> PyList(<<>>),
                            error |-> PyStr(<<"wu", "shu", "ju">>)]))
      ELSE IF intent = "statistics" THEN _create_bar_chart(data, columns, FALSE)
      ELSE IF intent = "trend" THEN _create_line_chart(data, columns)
      ELSE IF intent = "distribution" THEN _create_pie_chart(data, columns)
      ELSE IF intent = "ranking" THEN _create_bar_chart(data, columns, TRUE)
      ELSE _create_table_chart(data, columns)

----------------------------------------------------------------------------
(* result/result_processor.py *)

\* the keys of the formatter registry
formatters == {<<"j", "s", "o", "n">>, <<"c", "s", "v">>, <<"c", "h", "a", "r", "t">>, <<"t", "a", "b", "l", "e">>}

\* formatter.format(...) of the formatter registered under name
format(name, data, columns, analyzed_query) ==
  CASE name = <<"j", "s", "o", "n">>  -> JSONFormatter_format(data, columns, analyzed_query)
    [] name = <<"c", "s", "v">>   -> CSVFormatter_format(data, columns, analyzed_query)
    [] name = <<"c", "h", "a", "r", "t">> -> ChartFormatter_format(data, columns, analyzed_query)
    [] name = <<"t", "a", "b", "l", "e">> -> TableFormatter_format(data, columns, analyzed_query)

\* datetime.now().isoformat(), the clock read at midnight
isoformat(now) == strftime(now) \o <<"T", "0", "0", ":", "0", "0", ":", "0", "0">>

_generate_query_summary(analyzed_query) ==
  PyDict(
    [original_query   |-> PyStr(analyzed_query.original_query),
     intent           |-> PyStr(IntentValue[analyzed_query.intent_result.intent]),
     data_source      |-> PyStr(analyzed_query.data_source.table),
     has_conditions   |-> PyBool(Len(analyzed_query.conditions) > 0),
     has_aggregations |-> PyBool(analyzed_query.aggregations # PyNone),
     confidence_score |-> PyFloat(analyzed_query.confidence_score)])

\* process_result with a missing success flag read as success
process_result_MissingIsSuccess(execution_result, analyzed_query, output_format, now) ==
  IF ~Truthy(Get(execution_result, "success", PyBool(TRUE)))
    THEN [outcome |-> Return(
            [success        |-> PyBool(FALSE),
             error          |-> Get(execution_result, "error", PyStr(<<"wei", "zhi1", "cuo", "wu4">>)),
             task_id        |-> Get(execution_result, "task_id", PyNone),
             execution_time |-> Get(execution_result, "execution_time", PyInt(0)),
             timestamp      |-> PyStr(isoformat(now))]),
          invoked |-> <<>>]
  ELSE
    LET formatter == IF output_format \in formatters THEN output_format ELSE <<"j", "s", "o", "n">>
        processed_data == format(formatter,
                                 Get(execution_result, "data", PyList(<<>>)),
                                 Get(execution_result, "columns", PyList(<<>>)),
                                 analyzed_query)
    IN  [outcome |-> IF processed_data.exc # "none" THEN processed_data
                     ELSE Return([success |-> PyBool(TRUE), data |-> processed_data.value]),
         invoked |-> <<formatter>>]

\* the envelope process_result returns (or the exception a formatter raises)
\* and the formatters it invoked
process_result(execution_result, analyzed_query, output_format, now) ==
  IF ~Truthy(Get(execution_result, "success", PyBool(FALSE)))
    THEN [outcome |-> Return(
            [success        |-> PyBool(FALSE),
             error          |-> Get(execution_result, "error", PyStr(<<"wei", "zhi1", "cuo", "wu4">>)),
             task_id        |-> Get(execution_result, "task_id", PyNone),
             execution_time |-> Get(execution_result, "execution_time", PyInt(0)),
             timestamp      |-> PyStr(isoformat(now))]),
          invoked |-> <<>>]
  ELSE
    LET formatter == IF output_format \in formatters THEN output_format ELSE <<"j", "s", "o", "n">>
        processed_data == format(formatter,
                                 Get(execution_result, "data", PyList(<<>>)),
                                 Get(execution_result, "columns", PyList(<<>>)),
                                 analyzed_query)
    IN  [outcome |-> IF processed_data.exc # "none" THEN processed_data
                     ELSE Return(
                       [success  |-> PyBool(TRUE),
                        data     |-> processed_data.value,
                        metadata |-> PyDict(
                          [task_id        |-> Get(execution_result, "task_id", PyNone),
                           row_count      |-> Get(execution_result, "row_count", PyInt(0)),
                           execution_time |-> Get(execution_result, "execution_time", PyInt(0)),
                           output_format  |-> PyStr(output_format),
                           timestamp      |-> PyStr(isoformat(now)),
                           query_summary  |-> _generate_query_summary(analyzed_query)])]),
         invoked |-> <<formatter>>]

\* seq[start:stop]: a negative index counts from the end, and both are
\* clipped to the sequence
PySlice(seq, start, stop) ==
  LET n  == Len(seq)
      lo == IF start < 0 THEN Max2(start + n, 0) ELSE Min2(start, n)
      hi == IF stop < 0 THEN Max2(stop + n, 0) ELSE Min2(stop, n)
  IN  IF lo < hi THEN SubSeq(seq, lo + 1, hi) ELSE <<>>

\* d[key] = value on a dict d
SetKey(d, key, value) == [k \in DOMAIN d \cup {key} |-> IF k = key THEN value ELSE d[k]]

\* the 'pagination' dict; // is the floor division, which raises on 0
pagination(page, page_size, total_count) ==
  PyDict(
    [page        |-> PyInt(page),
     page_size   |-> PyInt(page_size),
     total_count |-> PyInt(total_count),
     total_pages |-> PyInt((total_count + page_size - 1) \div page_size),
     has_next    |-> PyBool((page - 1) * page_size + page_size < total_count),
     has_prev    |-> PyBool(page > 1)])

paginate_result(processed_result, page, page_size) ==
  IF ~Truthy(Get(processed_result, "success", PyBool(FALSE))) THEN Return(processed_result)
  ELSE
    LET data      == Get(processed_result, "data", PyDict(<<>>))
        start_idx == (page - 1) * page_size
        end_idx   == start_idx + page_size
    IN  IF data.t = "dict" /\ "rows" \in DOMAIN data.v THEN
          IF data.v.rows.t # "list" THEN Raise("TypeError")  \* len(None)
          ELSE IF page_size = 0 THEN Raise("ZeroDivisionError")
          ELSE Return(SetKey(processed_result, "data", PyDict(
                 [columns    |-> Get(data.v, "columns", PyList(<<>>)),
                  rows       |-> PyList(PySlice(data.v.rows.v, start_idx, end_idx)),
                  pagination |-> pagination(page, page_size, Len(data.v.rows.v))])))
        ELSE IF data.t = "list" THEN
          IF page_size = 0 THEN Raise("ZeroDivisionError")
          ELSE Return(SetKey(processed_result, "data", PyDict(
                 [rows       |-> PyList(PySlice(data.v, start_idx, end_idx)),
                  pagination |-> pagination(page, page_size, Len(data.v))])))
        ELSE Return(SetKey(processed_result, "data", data))

----------------------------------------------------------------------------
(* execution/engine_factory.py, execution/spark_engine.py, execution/hive_engine.py *)

\* the engine types with a registered class
_engines == {<<"s", "p", "a", "r", "k">>, <<"h", "i", "v", "e">>}

\* a new engine object: no session, not connected.  The constructor of an
\* engine class raises ImportError when its client library is not installed
create_engine(engine_type, library_installed) ==
  IF engine_type \notin _engines THEN Raise("ValueError")
  ELSE IF ~library_installed THEN Raise("ImportError")
  ELSE Return([t |-> "engine", type |-> engine_type, session |-> FALSE, connected |-> FALSE])

\* engine.connect(): whether the backend accepts the connection is the
\* backend's choice; an exception on the way leaves the engine without a session
engine_connect(engine, accepted) ==
  [engine |-> [engine EXCEPT !.session = accepted, !.connected = accepted],
   result |-> accepted]

engine_disconnect(engine) ==
  IF engine.session THEN [engine EXCEPT !.session = FALSE, !.connected = FALSE] ELSE engine

\* the id of the task being executed stands for its uuid
task_id(task) == PyStr(<<"t", "a", "s", "k", "_", "1">>)

\* engine.execute_query(sql, task): backend is what the cluster does with the
\* statement, rows or an exception; the engine never raises
execute_query(engine, sql, task, backend) ==
  IF ~engine.connected \/ ~engine.session
    THEN [success        |-> PyBool(FALSE),
          error          |-> PyStr(IF engine.type = <<"s", "p", "a", "r", "k">> THEN <<"S", "p", "a", "r", "k", "wei", "lian2", "jie">> ELSE <<"H", "i", "v", "e", "wei", "lian2", "jie">>),
          data           |-> PyNone,
          row_count      |-> PyInt(0),
          execution_time |-> PyInt(0)]
  ELSE IF backend.kind = "rows"
    THEN [success        |-> PyBool(TRUE),
          error          |-> PyNone,
          data           |-> backend.data,
          columns        |-> backend.columns,
          row_count      |-> PyInt(Len(backend.data.v)),
          execution_time |-> PyFloat(backend.execution_time),
          task_id        |-> task_id(task)]
  ELSE [success        |-> PyBool(FALSE),
        error          |-> PyStr((IF engine.type = <<"s", "p", "a", "r", "k">> THEN <<"S", "Q", "L", "zhi2", "xing2", "shi5", "bai", ":", " ">>
                                  ELSE <<"H", "i", "v", "e", "cha2", "xun", "zhi2", "xing2", "shi5", "bai", ":", " ">>) \o backend.message),
        data           |-> PyNone,
        row_count      |-> PyInt(0),
        execution_time |-> PyFloat(backend.execution_time),
        task_id        |-> task_id(task)]

----------------------------------------------------------------------------
(* Calls on instances shared by threads: a call is a sequence of steps, each *)
(* reading attributes of the instance at most once, and other threads run    *)
(* between the steps                                                         *)

\* the attributes of the IntentRecognizer and of the SQLGenerator after
\* __init__
SharedInstances ==
  [intent_keywords      |-> intent_keywords,
   time_keywords        |-> time_keywords,
   aggregation_keywords |-> aggregation_keywords,
   supported_dialects   |-> supported_dialects]

\* _extract_parameters reading the keyword lists of the instance self
_extract_parameters_of(self, query) ==
  LET time_kw == FirstKeyword(self.time_keywords, query)
      agg_kw  == FirstKeyword(self.aggregation_keywords, query)
      number  == FirstNumber(query)
  IN  Field("time_range", time_kw # <<>>, time_kw)
        @@ Field("aggregation", agg_kw # <<>>, agg_kw)
        @@ Field("limit", number # <<>>, ParseInt(number))
        @@ (IF Contains(query, <<"yong", "hu">>) THEN [k \in {"entity"} |-> <<"u", "s", "e", "r">>]
            ELSE IF Contains(query, <<"ding", "dan">>) THEN [k \in {"entity"} |-> <<"o", "r", "d", "e", "r">>]
            ELSE IF Contains(query, <<"shang1", "pin">>) THEN [k \in {"entity"} |-> <<"p", "r", "o", "d", "u", "c", "t">>]
            ELSE <<>>)

\* one step of recognize_intent(query) on the instance self: the score loop,
\* then the best intent and its confidence, then the parameters and the
\* result.  frame holds the local variables of the call
recognize_intent_step(self, query, frame) ==
  CASE frame.pc = "start" ->
         [self  |-> self,
          frame |-> [pc |-> "scored",
                     intent_scores |->
                       [intent \in DOMAIN self.intent_keywords |->
                          Cardinality({k \in 1..Len(self.intent_keywords[intent]) :
                            Contains(Lower(query), Lower(self.intent_keywords[intent][k]))})]]]
    [] frame.pc = "scored" ->
         LET best_intent == MaxKey(frame.intent_scores, 2, IntentOrder[1])
             confidence  == (frame.intent_scores[best_intent] * Unit)
                              \div Max2(1, Len(self.intent_keywords[best_intent]))
         IN  [self  |-> self,
              frame |-> [pc |-> "chosen",
                         best_intent |-> IF confidence = 0 THEN "statistics" ELSE best_intent,
                         confidence  |-> IF confidence = 0 THEN Unit \div 2 ELSE confidence]]
    [] OTHER ->
         [self  |-> self,
          frame |-> [pc |-> "done",
                     result |-> [intent     |-> frame.best_intent,
                                 confidence |-> Min2(frame.confidence, Unit),
                                 parameters |-> _extract_parameters_of(self, query),
                                 raw_query  |-> query]]]

\* " ".join(sql_parts) for the dialect the call has settled on
joined_sql_parts(analyzed_query, dialect, now) ==
  Join(<< _build_select_clause(analyzed_query),
          _build_from_clause(analyzed_query.data_source, dialect) >>
         \o Clause(<<"W", "H", "E", "R", "E">>,
                   _build_where_clause(analyzed_query.conditions, analyzed_query.time_range, now))
         \o Clause(<<"G", "R", "O", "U", "P", " ", "B", "Y">>, _build_group_by_clause(analyzed_query.aggregations))
         \o Clause(<<"O", "R", "D", "E", "R", " ", "B", "Y">>, _build_order_by_clause(analyzed_query.output_config))
         \o Clause(<<"L", "I", "M", "I", "T">>, _build_limit_clause(analyzed_query.output_config)),
       <<" ">>)

\* generate_sql_step that remembers an unsupported dialect on the instance
generate_sql_step_RegistersDialect(self, made, frame) ==
  CASE frame.pc = "start" ->
         [self  |-> [self EXCEPT !.supported_dialects = @ \cup {made.dialect}],
          frame |-> [pc |-> "dialect",
                     dialect |-> IF made.dialect \notin self.supported_dialects
                                   THEN <<"h", "i", "v", "e">> ELSE made.dialect]]
    [] OTHER ->
         [self  |-> self,
          frame |-> [pc |-> "done",
                     result |-> joined_sql_parts(made.analyzed_query, frame.dialect, made.now)]]

\* one step of the call made of generate_sql on the instance self: the test
\* of the dialect, then the clauses and the statement
generate_sql_step(self, made, frame) ==
  CASE frame.pc = "start" ->
         [self  |-> self,
          frame |-> [pc |-> "dialect",
                     dialect |-> IF made.dialect \notin self.supported_dialects
                                   THEN <<"h", "i", "v", "e">> ELSE made.dialect]]
    [] OTHER ->
         [self  |-> self,
          frame |-> [pc |-> "done",
                     result |-> joined_sql_parts(made.analyzed_query, frame.dialect, made.now)]]

----------------------------------------------------------------------------
(* execution/spark_engine.py: execute_query on the threads of the engine's   *)
(* pool, and disconnect, step by step.  A step reads or writes one attribute *)
(* of the engine, or makes one call on the session                           *)

\* the pool of a SparkEngine has two worker threads
max_workers == 2

\* a SparkEngine after a successful connect: spark_session refers to the
\* session, whose state the cluster holds
ConnectedSpark ==
  [type |-> <<"s", "p", "a", "r", "k">>, connected |-> TRUE, spark_session |-> [t |-> "SparkSession"]]

\* the engine as execute_query sees it when both tests of its first line pass
PassedTests ==
  [t |-> "engine", type |-> <<"s", "p", "a", "r", "k">>, session |-> TRUE, connected |-> TRUE]

\* the outcome map of the except branch for an exception with this message
FailureOutcome(made, message) ==
  execute_query(PassedTests, made.sql, made.task,
                [kind |-> "error", message |-> message, execution_time |-> Unit])

\* the map returned before anything is executed: 'Spark未连接'
NotConnectedOutcome(made) ==
  execute_query([PassedTests EXCEPT !.connected = FALSE], made.sql, made.task, made.backend)

\* the frame of a call that has returned result
Finished(result) == [pc |-> "done", result |-> result]

\* execute_query whose use of the session precedes the try block
execute_query_step_SessionOutsideTry(self, made, frame, stopped) ==
  CASE frame.pc = "queued" ->
         [frame |-> IF ~self.connected THEN Finished(Return(NotConnectedOutcome(made)))
                    ELSE [pc |-> "test_session"],
          collected |-> FALSE]
    [] frame.pc = "test_session" ->
         [frame |-> IF self.spark_session = PyNone
                      THEN Finished(Return(NotConnectedOutcome(made)))
                    ELSE [pc |-> "sql"],
          collected |-> FALSE]
    [] frame.pc = "sql" ->
         [frame |-> IF self.spark_session = PyNone
                      THEN Finished(Raise("AttributeError"))
                    ELSE IF stopped
                      THEN Finished(Raise("Py4JError"))
                    ELSE IF made.backend.kind = "error" /\ made.raises_in = "sql"
                      THEN Finished(Return(FailureOutcome(made, made.backend.message)))
                    ELSE [pc |-> "collect"],
          collected |-> FALSE]
    [] OTHER ->
         [frame |-> IF stopped
                      THEN Finished(Return(FailureOutcome(made, <<"s", "t", "o", "p", "p", "e", "d">>)))
                    ELSE Finished(Return(execute_query(PassedTests, made.sql, made.task, made.backend))),
          collected |-> ~stopped /\ made.backend.kind = "rows"]

\* one step of execute_query(sql, task) on the engine self.  stopped: the
\* session has been stopped, and every call on it raises.  The frame is
\* queued until a worker runs the call; collected tells that this step has
\* fetched the rows
execute_query_step(self, made, frame, stopped) ==
  CASE frame.pc = "queued" ->
         [frame |-> IF ~self.connected THEN Finished(Return(NotConnectedOutcome(made)))
                    ELSE [pc |-> "test_session"],
          collected |-> FALSE]
    [] frame.pc = "test_session" ->
         [frame |-> IF self.spark_session = PyNone
                      THEN Finished(Return(NotConnectedOutcome(made)))
                    ELSE [pc |-> "sql"],
          collected |-> FALSE]
    [] frame.pc = "sql" ->
         [frame |-> IF self.spark_session = PyNone
                      THEN Finished(Return(FailureOutcome(made, <<"'", "N", "o", "n", "e", "T", "y", "p", "e", "'", " ", "o", "b", "j", "e", "c", "t", " ", "h", "a", "s", " ", "n", "o", " ", "a", "t", "t", "r", "i", "b", "u", "t", "e", " ", "'", "s", "q", "l", "'">>)))
                    ELSE IF stopped
                      THEN Finished(Return(FailureOutcome(made, <<"s", "t", "o", "p", "p", "e", "d">>)))
                    ELSE IF made.backend.kind = "error" /\ made.raises_in = "sql"
                      THEN Finished(Return(FailureOutcome(made, made.backend.message)))
                    ELSE [pc |-> "collect"],
          collected |-> FALSE]
    [] OTHER ->
         [frame |-> IF stopped
                      THEN Finished(Return(FailureOutcome(made, <<"s", "t", "o", "p", "p", "e", "d">>)))
                    ELSE Finished(Return(execute_query(PassedTests, made.sql, made.task, made.backend))),
          collected |-> ~stopped /\ made.backend.kind = "rows"]

\* one step of SparkEngine.disconnect().  stop_raises: the session's stop()
\* raises and leaves the session running; the exception is caught
spark_disconnect_step(self, frame, stop_raises) ==
  CASE frame.pc = "idle" ->
         [self |-> self,
          frame |-> IF self.spark_session # PyNone THEN [pc |-> "stop"] ELSE [pc |-> "idle"],
          stops |-> FALSE]
    [] frame.pc = "stop" ->
         [self |-> self, frame |-> [pc |-> "unset"], stops |-> ~stop_raises]
    [] frame.pc = "unset" ->
         [self |-> [self EXCEPT !.spark_session = PyNone], frame |-> [pc |-> "unflag"],
          stops |-> FALSE]
    [] OTHER ->
         [self |-> [self EXCEPT !.connected = FALSE], frame |-> [pc |-> "idle"],
          stops |-> FALSE]

----------------------------------------------------------------------------
(* core/agent.py *)

\* BigDataAgent(engine_type) after __init__
BigDataAgent(engine_type) ==
  [engine_type |-> engine_type, connected |-> FALSE, execution_engine |-> PyNone]

\* connect(): the agent afterwards and the returned flag
connect(self, library_installed, accepted) ==
  LET created == create_engine(self.engine_type, library_installed)
      linked  == engine_connect(created.value, accepted)
  IN  IF created.exc # "none"
        THEN [self |-> [self EXCEPT !.connected = FALSE], result |-> FALSE]
        ELSE [self |-> [self EXCEPT !.execution_engine = linked.engine,
                                     !.connected = linked.result],
              result |-> linked.result]

\* disconnect that keeps the engine instance
disconnect_KeepsEngine(self) == [self EXCEPT !.connected = FALSE]

disconnect(self) == [self EXCEPT !.execution_engine = PyNone, !.connected = FALSE]

\* __enter__: connect(), whose result is dropped, and the agent is returned
__enter__(self, library_installed, accepted) ==
  connect(self, library_installed, accepted).self

\* __exit__: disconnect(); the result None lets the exception of the block,
\* if any, propagate.  exc_type is not looked at
__exit__(self, exc_type) == [self |-> disconnect(self), result |-> PyNone]

\* QueryAnalyzer.to_dict
QueryAnalyzer_to_dict(analyzed_query) ==
  [original_query    |-> PyStr(analyzed_query.original_query),
   intent            |-> PyStr(IntentValue[analyzed_query.intent_result.intent]),
   intent_confidence |-> PyFloat(analyzed_query.intent_result.confidence),
   data_source       |-> analyzed_query.data_source,
   conditions        |-> analyzed_query.conditions,
   output_config     |-> analyzed_query.output_config,
   description       |-> analyzed_query.description,
   confidence_score  |-> PyFloat(analyzed_query.confidence_score)]
    @@ Field("aggregations", analyzed_query.aggregations # PyNone, analyzed_query.aggregations)
    @@ Field("time_range", analyzed_query.time_range # PyNone, analyzed_query.time_range)

\* DataTask.to_dict reads self.analyzed_query.nlp, an attribute AnalyzedQuery
\* does not have
DataTask_to_dict(task) == Raise("AttributeError")

\* str(e): the message of an exception is represented by the name of its type
ExceptionText(exception) == <<exception>>

\* except Exception as e, without the handler: the exception leaves query
query_except_Reraises(exception, elapsed, now) == Raise(exception)

\* except Exception as e: the envelope query returns for an exception raised
\* in its try block
query_except(exception, elapsed, now) ==
  Return([success        |-> PyBool(FALSE),
          error          |-> PyStr(<<"cha2", "xun", "chu4", "li3", "shi5", "bai", ":", " ">> \o ExceptionText(exception)),
          timestamp      |-> PyStr(isoformat(now)),
          execution_time |-> PyFloat(elapsed)])

\* query from "processed_result['query_info'] = ..." on
query_processed(analyzed_query, task, processed_result, user_query, elapsed, now) ==
  LET invoked   == <<"analyze_query", "build_task", "execute_query", "process_result">>
                     \o [i \in 1..Len(processed_result.invoked) |-> "format"]
      task_info == DataTask_to_dict(task)
  IN  IF processed_result.outcome.exc # "none"
        THEN [outcome |-> query_except(processed_result.outcome.exc, elapsed, now),
              invoked |-> invoked]
      ELSE IF task_info.exc # "none"
        THEN [outcome |-> query_except(task_info.exc, elapsed, now), invoked |-> invoked]
      ELSE [outcome |-> Return(SetKey(processed_result.outcome.value, "query_info", PyDict(
              [original_query |-> PyStr(user_query),
               analyzed_query |-> PyDict(QueryAnalyzer_to_dict(analyzed_query)),
               task_info      |-> task_info.value,
               total_time     |-> PyFloat(elapsed)]))),
            invoked |-> invoked]

\* query from "4." on: the outcome of the engine goes to the result processor
query_executed(analyzed_query, task, execution_result, user_query, output_format, elapsed, now) ==
  query_processed(analyzed_query, task,
                  process_result(execution_result, analyzed_query, output_format, now),
                  user_query, elapsed, now)

\* query from "3." on: the statement of the task goes to the engine
query_built(self, analyzed_query, task, user_query, output_format, backend, elapsed, now) ==
  IF task.exc # "none"
    THEN [outcome |-> query_except(task.exc, elapsed, now),
          invoked |-> <<"analyze_query", "build_task">>]
    ELSE query_executed(analyzed_query, task.value,
                        execute_query(self.execution_engine, task.value.sql_query,
                                      task.value, backend),
                        user_query, output_format, elapsed, now)

\* query from "2." on: the analyzed query goes to the task builder
query_analyzed(self, analyzed_query, user_query, output_format, backend, elapsed, now) ==
  IF analyzed_query.exc # "none"
    THEN [outcome |-> query_except(analyzed_query.exc, elapsed, now),
          invoked |-> <<"analyze_query">>]
    ELSE query_built(self, analyzed_query.value,
                     build_task(analyzed_query.value, self.engine_type, 1, 3600, now),
                     user_query, output_format, backend, elapsed, now)

\* query(user_query, output_format): the envelope returned and the components
\* invoked.  response is the answer of the NLU collaborator, backend what the
\* cluster does, elapsed the time measured by the clock
query(self, user_query, output_format, response, backend, elapsed, now) ==
  IF ~self.connected
    THEN [outcome |-> Return(
            [success   |-> PyBool(FALSE),
             error     |-> PyStr(<<"zhi2", "xing2", "yin", "qing2", "wei", "lian2", "jie", "dou", "qing3", "xian", "diao", "yong", " ", "c", "o", "n", "n", "e", "c", "t", "(", ")">>),
             timestamp |-> PyStr(isoformat(now))]),
          invoked |-> <<>>]
    ELSE query_analyzed(self, analyze_query(user_query, response, now),
                        user_query, output_format, backend, elapsed, now)

\* except Exception as e of preview_query
preview_except(exception) ==
  Return([success |-> PyBool(FALSE), error |-> PyStr(ExceptionText(exception))])

\* preview_query from the processed result of the sample statement on
preview_processed(processed_result, sample_size) ==
  LET invoked == <<"analyze_query", "build_task", "execute_query", "process_result">>
                   \o [i \in 1..Len(processed_result.invoked) |-> "format"]
  IN  IF processed_result.outcome.exc # "none"
        THEN [outcome |-> preview_except(processed_result.outcome.exc), invoked |-> invoked]
        ELSE [outcome |-> Return(
                [success         |-> PyBool(TRUE),
                 preview_data    |-> Get(processed_result.outcome.value, "data", PyDict(<<>>)),
                 sample_size     |-> PyInt(sample_size),
                 total_estimated |-> PyStr(<<"wei", "zhi1">>)]),
              invoked |-> invoked]

\* preview_query from "if task.sample_sql" on
preview_built(self, analyzed_query, task, sample_size, backend, now) ==
  IF task.exc # "none"
    THEN [outcome |-> preview_except(task.exc), invoked |-> <<"analyze_query", "build_task">>]
  ELSE IF task.value.sample_sql = <<>>
    THEN [outcome |-> Return([success |-> PyBool(FALSE),
                              error   |-> PyStr(<<"wu", "fa3", "sheng1", "cheng2", "cai3", "yang4", "cha2", "xun">>)]),
          invoked |-> <<"analyze_query", "build_task">>]
  ELSE preview_processed(
         process_result(execute_query(self.execution_engine, task.value.sample_sql,
                                      task.value, backend),
                        analyzed_query, <<"t", "a", "b", "l", "e">>, now),
         sample_size)

\* preview_query from the call of the task builder on
preview_analyzed(self, analyzed_query, sample_size, backend, now) ==
  IF analyzed_query.exc # "none"
    THEN [outcome |-> preview_except(analyzed_query.exc), invoked |-> <<"analyze_query">>]
    ELSE preview_built(self, analyzed_query.value,
                       build_task(analyzed_query.value, self.engine_type, 1, 3600, now),
                       sample_size, backend, now)

\* preview_query without the test of self.connected
preview_query_EntersUnconnected(self, user_query, sample_size, response, backend, now) ==
  preview_analyzed(self, analyze_query(user_query, response, now), sample_size, backend, now)

\* preview_query(user_query, sample_size): the envelope returned and the
\* components invoked
preview_query(self, user_query, sample_size, response, backend, now) ==
  IF ~self.connected
    THEN [outcome |-> Return([success |-> PyBool(FALSE),
                              error   |-> PyStr(<<"zhi2", "xing2", "yin", "qing2", "wei", "lian2", "jie">>)]),
          invoked |-> <<>>]
    ELSE preview_analyzed(self, analyze_query(user_query, response, now),
                          sample_size, backend, now)

\* results.append(result) that keeps the successful envelopes only
batch_append_DropsFailures(frame, result, answers) ==
  [i       |-> frame.i + 1,
   results |-> IF Truthy(result.outcome.value.success)
                 THEN Append(frame.results,
                             SetKey(result.outcome.value, "batch_index", PyInt(frame.i + 1)))
                 ELSE frame.results,
   log     |-> Append(frame.log, answers),
   invoked |-> result.invoked]

\* result['batch_index'] = i; results.append(result).  log remembers what the
\* collaborators answered in each iteration
batch_append(frame, result, answers) ==
  [i       |-> frame.i + 1,
   results |-> Append(frame.results,
                      SetKey(result.outcome.value, "batch_index", PyInt(frame.i + 1))),
   log     |-> Append(frame.log, answers),
   invoked |-> result.invoked]

\* one iteration of the loop of batch_query on the local variables i and
\* results
batch_query_step(self, frame, user_query, output_format, response, backend, elapsed, now) ==
  batch_append(frame,
               query(self, user_query, output_format, response, backend, elapsed, now),
               [query |-> user_query, response |-> response, backend |-> backend,
                elapsed |-> elapsed, now |-> now])

----------------------------------------------------------------------------
(* Request texts *)

IntentFragments ==
  {
    <<"tong", "ji">>,  \* 统计
    <<"shu", "ju">>,  \* 数据
    <<"fen", "xi">>,  \* 分析
    <<"qu", "shi4">>,  \* 趋势
    <<"dui", "bi">>,  \* 对比
    <<"pai", "ming">>,  \* 排名
    <<"T", "O", "P">>,  \* TOP
    <<"C", "o", "u", "n", "t">>,  \* Count
    <<"xiang1", "guan">>,  \* 相关
    <<"zhan4", "bi">>,  \* 占比
    <<"ju3", "he">>,  \* 聚合
    <<"cha2", "xun">>,  \* 查询
    <<"yong", "hu">>,  \* 用户
    <<"zuo", "tian">>,  \* 昨天
    <<"1", "0">>,  \* 10
    <<"x", "y", "z">>   \* xyz
  }

RECURSIVE Concats(_, _)
\* the concatenations of at most n fragments of the set frags
Concats(frags, n) ==
  IF n = 0 THEN {<<>>}
  ELSE LET shorter == Concats(frags, n - 1)
       IN  shorter \cup {t \o f : t \in shorter, f \in frags}

IntentTexts == Concats(IntentFragments, MaxFrags)

QueryFragments ==
  {
    <<"tong", "ji">>,  \* 统计
    <<"zuo", "tian">>,  \* 昨天
    <<"zui", "jin4", "7", "tian">>,  \* 最近7天
    <<"ding", "dan">>,  \* 订单
    <<"an", "sheng", "fen4">>,  \* 按省份
    <<"qu", "shi4">>,  \* 趋势
    <<"1", "0">>,
    <<"x", "y", "z">>
  }

QueryTexts == Concats(QueryFragments, MaxQueryFrags)

\* the days on which the requests are made (1 March 2024)
NowDays == {61}

----------------------------------------------------------------------------
(* Request texts with the phrases both derivations know *)

WindowTexts ==
  { <<"tong", "ji", "zuo", "tian">>,
    <<"zui", "jin4", "7", "tian", "ding", "dan">>,
    <<"guo", "qu4", "yi", "zhou">>,
    <<"jin", "tian", "zui", "jin4", "7", "tian">>,
    <<"zuo", "tian", "zui", "jin4", "7", "tian">>,
    <<"tong", "ji">> }

----------------------------------------------------------------------------
(* What the NLU collaborator can answer *)

\* replies of the expected shape: an object whose fields, when present, are strings
WellFormedAnalyses ==
  { PyDict(Field("data_entity", e, PyStr(<<"ding", "dan">>))  \* 订单
           @@ Field("conditions", c, PyStr(<<"zuo", "tian">>))  \* 昨天
           @@ Field("aggregations", a, PyStr(<<"qiu", "he2">>))  \* 求和
           @@ Field("time_range", t # <<>>, PyStr(t))
           @@ Field("output_requirements", o, PyStr(<<"tu", "biao">>))  \* 图表
           @@ Field("description", e, PyStr(<<"tong", "ji">>))) :  \* 统计
      e \in BOOLEAN, c \in BOOLEAN, a \in BOOLEAN, o \in BOOLEAN,
      t \in { <<>>,
              <<"zuo", "tian">>,  \* 昨天
              <<"zui", "jin4", "7", "tian">>,  \* 最近7天
              <<"zui", "jin4", "3", "0", "tian">> } }  \* 最近30天

\* JSON objects with a field that is not a string
IllTypedAnalyses ==
  { PyDict([k \in {f} |-> x]) :
      f \in {"data_entity", "conditions", "time_range", "output_requirements"},
      x \in { PyNone, PyInt(7), PyList(<<>>), PyList(<<PyStr(<<"tu", "biao">>)>>) } }  \* 图表

\* JSON documents that are not objects
NonObjectValues == { PyNone, PyInt(7), PyStr(<<"ding", "dan">>), PyList(<<>>) }  \* 订单

NLUResponses ==
  { [kind |-> "raise", value |-> PyNone], [kind |-> "text", value |-> PyNone] }
    \cup { [kind |-> "json", value |-> x] :
             x \in WellFormedAnalyses \cup IllTypedAnalyses \cup NonObjectValues }

----------------------------------------------------------------------------
(* NLU answers and engine types of the whole pipeline *)

\* the NLU raises, answers no JSON, null, an ill-typed time range, or an
\* object that names an entity, conditions and a time range or not
PipelineResponses ==
  { [kind |-> "raise", value |-> PyNone], [kind |-> "text", value |-> PyNone],
    [kind |-> "json", value |-> PyNone],
    [kind |-> "json", value |-> PyDict([time_range |-> PyInt(7)])] }
    \cup { [kind |-> "json",
            value |-> PyDict(Field("data_entity", e, PyStr(<<"ding", "dan">>))
                             @@ Field("conditions", c, PyStr(<<"zuo", "tian">>))
                             @@ Field("aggregations", e, PyStr(<<"qiu", "he2">>))
                             @@ Field("time_range", t # <<>>, PyStr(t)))] :
             e \in BOOLEAN, c \in BOOLEAN,
             t \in {<<>>, <<"zuo", "tian">>, <<"zui", "jin4", "7", "tian">>, <<"zui", "jin4", "3", "0", "tian">>} }

\* the engine types of the registry, a dialect without engine and an unknown
\* one
PipelineEngines == {<<"s", "p", "a", "r", "k">>, <<"h", "i", "v", "e">>, <<"c", "l", "i", "c", "k", "h", "o", "u", "s", "e">>, <<"p", "r", "e", "s", "t", "o">>, <<"m", "y", "s", "q", "l">>}

----------------------------------------------------------------------------
(* Analyzed queries given directly to the SQL generator and the task builder *)

IntentResult(intent) ==
  [intent |-> intent, confidence |-> Unit \div 2, parameters |-> <<>>, raw_query |-> <<>>]

AnalyzedQuery(intent, data_source, conditions, aggregations, time_range, output_config) ==
  [original_query   |-> <<>>,
   intent_result    |-> IntentResult(intent),
   data_source      |-> data_source,
   conditions       |-> conditions,
   aggregations     |-> aggregations,
   time_range       |-> time_range,
   output_config    |-> output_config,
   description      |-> PyStr(<<>>),
   confidence_score |-> Unit \div 2]

ConditionVariants ==
  { QueryCondition(<<"d", "a", "t", "e">>, <<"=">>, PyStr(<<"2", "0", "2", "4", "-", "0", "2", "-", "2", "9">>)),
    QueryCondition(<<"n", "a", "m", "e">>, <<"=">>, PyStr(<<"a", "(">>)),
    QueryCondition(<<"n", "a", "m", "e">>, <<"l", "i", "k", "e">>, PyStr(<<")", "(">>)),
    [QueryCondition(<<"i", "d">>, <<"i", "n">>, PyList(<<PyInt(1), PyInt(2)>>))
       EXCEPT !.logical_op = "OR"],
    QueryCondition(<<"a", "g", "e">>, <<"b", "e", "t", "w", "e", "e", "n">>, PyList(<<PyInt(1), PyInt(5)>>)),
    QueryCondition(<<"n", "a", "m", "e">>, <<"!", "=">>, PyStr(<<"i", "t", "'", "s">>)) }

RECURSIVE SeqsUpTo(_, _)
\* the sequences of at most n elements of the set S
SeqsUpTo(S, n) ==
  IF n = 0 THEN {<<>>}
  ELSE LET shorter == SeqsUpTo(S, n - 1)
       IN  shorter \cup {Append(t, x) : t \in shorter, x \in S}

AggregationVariants ==
  { PyNone,
    AggregationConfig(<<<<"p", "r", "o", "v", "i", "n", "c", "e">>>>, <<[field |-> <<"c", "o", "u", "n", "t">>, func |-> <<"c", "o", "u", "n", "t", "(", "*", ")">>]>>),
    AggregationConfig(<<<<"p", "r", "o", "v", "i", "n", "c", "e">>, <<"c", "i", "t", "y">>, <<"d", "a", "t", "e">>>>,
                      <<[field |-> <<"t", "o", "t", "a", "l">>, func |-> <<"s", "u", "m", "(", "a", "m", "o", "u", "n", "t", ")">>]>>) }

TimeRangeVariants ==
  { PyNone,
    TimeRange(PyNone, PyNone, PyNone),
    TimeRange(PyStr(<<"2", "0", "2", "4", "-", "0", "2", "-", "0", "1">>), PyNone, PyNone),
    TimeRange(PyNone, PyNone, PyInt(7)) }

OutputVariants ==
  { OutputConfig,
    [OutputConfig EXCEPT !.limit = PyInt(0)],
    [OutputConfig EXCEPT !.limit = PyInt(10), !.sort_by = PyStr(<<"d", "a", "t", "e">>)] }

DataSourceVariants ==
  { data_source_mapping[1].source,
    DataSource(<<"e", "v", "e", "n", "t", "s">>, <<"f", "i", "l", "e">>, <<"e", "v", "e", "n", "t", "s">>, PyNone) }

\* two supported dialects, one of them without qualified names, and an unsupported one
DialectVariants == {<<"h", "i", "v", "e">>, <<"c", "l", "i", "c", "k", "h", "o", "u", "s", "e">>, <<"m", "y", "s", "q", "l">>}

SqlQueries ==
  { AnalyzedQuery("statistics", d, c, a, t, o) :
      d \in DataSourceVariants, c \in SeqsUpTo(ConditionVariants, MaxConds),
      a \in AggregationVariants, t \in TimeRangeVariants, o \in OutputVariants }

----------------------------------------------------------------------------
(* Analyzed queries given to the cost model *)

\* n copies of a date condition
Conditions(n) == [i \in 1..n |-> QueryCondition(<<"d", "a", "t", "e">>, <<"=">>, PyStr(<<"2", "0", "2", "4", "-", "0", "2", "-", "2", "9">>))]

\* an aggregation over n group-by fields
GroupedBy(n) ==
  AggregationConfig([i \in 1..n |-> <<"f">> \o NatToStr(i)],
                    <<[field |-> <<"c", "o", "u", "n", "t">>, func |-> <<"c", "o", "u", "n", "t", "(", "*", ")">>]>>)

\* relative windows: none, and lengths on both sides of the 30-day threshold
RelativeDayCounts == {0, 7, 30, 31, 90}

ComplexityQueries ==
  { AnalyzedQuery(i, data_source_mapping[1].source, Conditions(c), a, t, OutputConfig) :
      i \in QueryIntent,
      c \in 0..MaxCondCount,
      a \in {PyNone} \cup {GroupedBy(g) : g \in 0..MaxGroupBy},
      t \in {PyNone, TimeRange(PyStr(<<"2", "0", "2", "4", "-", "0", "2", "-", "0", "1">>), PyNone, PyNone)}
              \cup {TimeRange(PyNone, PyNone, PyInt(d)) : d \in RelativeDayCounts} }

----------------------------------------------------------------------------
(* Execution outcomes and envelopes given to the result processor *)

ResultRows ==
  [full  |-> Row(<<<<"i", "d">>, <<"n", "a", "m", "e">>>>, <<PyInt(1), PyStr(<<"a", ",", "b">>)>>),
   short |-> Row(<<<<"i", "d">>>>, <<PyInt(2)>>),
   wide  |-> Row(<<<<"i", "d">>, <<"n", "a", "m", "e">>, <<"e", "x", "t", "r", "a">>>>, <<PyInt(3), PyNone, PyStr(<<"x">>)>>)]

DataVariants ==
  { PyNone, PyList(<<>>), PyList(<<ResultRows.full>>),
    PyList(<<ResultRows.full, ResultRows.short>>),
    PyList(<<ResultRows.short, ResultRows.wide>>) }

ColumnVariants ==
  { PyList(<<>>), PyList(<<PyStr(<<"i", "d">>)>>), PyList(<<PyStr(<<"i", "d">>), PyStr(<<"n", "a", "m", "e">>)>>) }

\* the success flag of an outcome, when it has one
SuccessFlags == { PyBool(TRUE), PyBool(FALSE), PyNone, PyInt(0) }

\* outcome dicts: every key but data and columns may be missing
ExecutionResults ==
  { Field("success", has_flag, flag)
      @@ Field("error", has_error, PyStr(<<"b", "o", "o", "m">>))
      @@ Field("task_id", has_meta, PyStr(<<"t", "a", "s", "k", "_", "1">>))
      @@ Field("execution_time", has_meta, PyFloat(3 * Unit))
      @@ Field("row_count", has_meta, PyInt(IF data.t = "list" THEN Len(data.v) ELSE 0))
      @@ Field("data", TRUE, data)
      @@ Field("columns", TRUE, columns) :
      has_flag \in BOOLEAN, flag \in SuccessFlags, has_error \in BOOLEAN,
      has_meta \in BOOLEAN, data \in DataVariants, columns \in ColumnVariants }

\* requested formats: the registered ones, an unknown one and the empty name
OutputFormats == formatters \cup {<<"x", "m", "l">>, <<>>}

ResultQueries ==
  { AnalyzedQuery(i, data_source_mapping[1].source, <<>>, PyNone, PyNone, OutputConfig) :
      i \in {"statistics", "trend", "distribution", "ranking", "filter"} }

ProcessCalls ==
  { [op |-> "process_result", execution_result |-> e, analyzed_query |-> q,
     output_format |-> f, now |-> n] :
      e \in ExecutionResults, q \in ResultQueries, f \in OutputFormats, n \in NowDays }

\* n rows, numbered from 1
NumberedRows(n) == [i \in 1..n |-> Row(<<<<"i", "d">>>>, <<PyInt(i)>>)]

\* a successful outcome of n rows
SuccessOutcome(n) ==
  [success |-> PyBool(TRUE), error |-> PyNone, data |-> PyList(NumberedRows(n)),
   columns |-> PyList(<<PyStr(<<"i", "d">>)>>), row_count |-> PyInt(n),
   execution_time |-> PyFloat(3 * Unit), task_id |-> PyStr(<<"t", "a", "s", "k", "_", "1">>)]

\* envelopes to paginate: what process_result makes of an outcome of up to
\* MaxRows rows in each format, a bare row list, and a failure envelope
PaginateEnvelopes ==
  { process_result(SuccessOutcome(n), q, f, d).outcome.value :
      n \in 0..MaxRows, f \in formatters, d \in NowDays,
      q \in {AnalyzedQuery("statistics", data_source_mapping[1].source, <<>>, PyNone, PyNone,
                           OutputConfig)} }
    \cup { [success |-> PyBool(TRUE), data |-> PyList(NumberedRows(n))] : n \in 0..MaxRows }
    \cup { [success |-> PyBool(FALSE), error |-> PyStr(<<"b", "o", "o", "m">>)] }

\* page numbers and page sizes, on both sides of the valid ranges
PageNumbers == (0 - MaxRows)..(MaxRows + 2)

PageSizes == (0 - 2)..(MaxRows + 1)

PaginateCalls ==
  { [op |-> "paginate_result", processed_result |-> e, page |-> p, page_size |-> z] :
      e \in PaginateEnvelopes, p \in PageNumbers, z \in PageSizes }

----------------------------------------------------------------------------
(* What the agent is asked and what its collaborators answer *)

EngineTypes == {<<"s", "p", "a", "r", "k">>, <<"h", "i", "v", "e">>, <<"c", "l", "i", "c", "k", "h", "o", "u", "s", "e">>}

AgentQueries ==
  { <<"tong", "ji", "yong", "hu">>,
    <<"qu", "shi4", "zuo", "tian">>,
    <<"x", "y", "z">> }

AgentFormats == {<<"j", "s", "o", "n">>, <<"c", "s", "v">>}

\* the NLU raises, answers the expected object, or answers JSON null
AgentResponses ==
  { [kind |-> "raise", value |-> PyNone],
    [kind |-> "json", value |-> PyDict([data_entity |-> PyStr(<<"ding", "dan">>),
                                        conditions  |-> PyStr(<<"zuo", "tian">>)])],
    [kind |-> "json", value |-> PyNone] }

\* the cluster returns rows or fails
BackendOutcomes ==
  { [kind |-> "rows", data |-> PyList(<<ResultRows.full, ResultRows.short>>),
     columns |-> PyList(<<PyStr(<<"i", "d">>), PyStr(<<"n", "a", "m", "e">>)>>), execution_time |-> 2 * Unit],
    [kind |-> "error", message |-> <<"b", "o", "o", "m">>, execution_time |-> Unit] }

\* seconds between the start of query and its exception handler
Durations == {3 * Unit}

----------------------------------------------------------------------------
(* Intent results and NLU analyses given to the confidence calculation *)

\* the confidences recognize_intent returns: k of the n keywords of a
\* category matched, or 0.5 when nothing matched
ConfidenceLevels ==
  UNION { {(k * Unit) \div Len(intent_keywords[i]) : k \in 1..Len(intent_keywords[i])} :
            i \in DOMAIN intent_keywords }
    \cup {Unit \div 2}

\* what the analysis can hold under a key: nothing, null, an empty text, a text
DescriptionVariants == {"absent", "null", "empty", "text"}

DescriptionValue(variant) ==
  CASE variant = "null"  -> PyNone
    [] variant = "empty" -> PyStr(<<>>)
    [] OTHER             -> PyStr(<<"ding", "dan">>)

ConfidenceAnalyses ==
  { PyDict(Field("data_entity", e # "absent", DescriptionValue(e))
           @@ Field("conditions", c # "absent", DescriptionValue(c))
           @@ Field("aggregations", a # "absent", DescriptionValue(a))) :
      e \in DescriptionVariants, c \in DescriptionVariants, a \in DescriptionVariants }

----------------------------------------------------------------------------
(* Request texts and NLU analyses given to the data-source resolution *)

EntityFragments ==
  { <<"yong", "hu">>, <<"ding", "dan">>, <<"shang1", "pin">>, <<"ri", "zhi4">>, <<"x", "y", "z">> }

EntityTexts == Concats(EntityFragments, MaxQueryFrags)

\* the data_entity of the analysis: missing, null, a number, or a text
EntityAnalyses ==
  { PyDict(<<>>) }
    \cup { PyDict([data_entity |-> x]) :
             x \in { PyNone, PyInt(7), PyStr(<<>>), PyStr(<<"ding", "dan">>), PyStr(<<"ri", "zhi4", "shang1", "pin">>),
                     PyStr(<<"o", "r", "d", "e", "r">>) } }

----------------------------------------------------------------------------
(* Concurrent calls on the shared instances *)

MaxThreads == 2

Threads == 1..MaxThreads

SharedTexts == {<<"tong", "ji", "yong", "hu">>, <<"qu", "shi4", "zuo", "tian">>, <<"T", "O", "P", "5">>}

SharedDialects == {<<"h", "i", "v", "e">>, <<"s", "p", "a", "r", "k">>, <<"m", "y", "s", "q", "l">>}

SharedCalls ==
  {[op |-> "recognize_intent", query |-> q] : q \in SharedTexts}
    \cup {[op |-> "generate_sql", dialect |-> d, now |-> n,
           analyzed_query |-> AnalyzedQuery("statistics", data_source_mapping[1].source,
                                            <<>>, PyNone, PyNone, OutputConfig)] :
            d \in SharedDialects, n \in NowDays}

----------------------------------------------------------------------------
(* Result sets given to the chart formatter *)

\* n rows with a label and a number each; unlabelled rows lack the label
ChartRows(n, labelled) ==
  [i \in 1..n |->
     IF labelled THEN Row(<<<<"n", "a", "m", "e">>, <<"t", "o", "t", "a", "l">>>>, <<PyStr(<<"a">>), PyInt(i)>>)
                 ELSE Row(<<<<"t", "o", "t", "a", "l">>>>, <<PyInt(i)>>)]

\* few rows, and row counts on both sides of the limit of the pie chart
ChartRowCounts == 0..MaxRows \cup {20, 21}

ChartData ==
  {PyList(ChartRows(n, labelled)) : n \in ChartRowCounts, labelled \in BOOLEAN}

\* no column, the label alone, label and number, and a third column
ChartColumns ==
  { PyList(<<>>),
    PyList(<<PyStr(<<"n", "a", "m", "e">>)>>),
    PyList(<<PyStr(<<"n", "a", "m", "e">>), PyStr(<<"t", "o", "t", "a", "l">>)>>),
    PyList(<<PyStr(<<"n", "a", "m", "e">>), PyStr(<<"t", "o", "t", "a", "l">>), PyStr(<<"e", "x", "t", "r", "a">>)>>) }

ChartQueries ==
  { AnalyzedQuery(i, data_source_mapping[1].source, <<>>, PyNone, PyNone, OutputConfig) :
      i \in QueryIntent }

----------------------------------------------------------------------------
(* Row lists given to the CSV formatter *)

\* texts that need no quoting and texts that do, and values that are no text
CsvValues ==
  { PyStr(<<>>), PyStr(<<"a">>), PyStr(<<"a", ",", "b">>), PyStr(<<"q", "\"", "x">>),
    PyStr(<<"l", "\r", "\n", "m">>), PyNone, PyInt(1) }

\* rows over both columns, over the first alone, and without any key
CsvRowVariants ==
  {Row(<<<<"i", "d">>, <<"n", "a", "m", "e">>>>, <<x, y>>) : x \in CsvValues, y \in CsvValues}
    \cup {Row(<<<<"i", "d">>>>, <<x>>) : x \in CsvValues}
    \cup {Row(<<>>, <<>>)}

CsvData ==
  {PyList(<<>>)} \cup {PyList(<<r>>) : r \in CsvRowVariants}
    \cup {PyList(<<r, Row(<<<<"i", "d">>, <<"n", "a", "m", "e">>>>, <<PyStr(<<"a">>), PyStr(<<>>)>>)>>) : r \in CsvRowVariants}

CsvColumns ==
  { PyList(<<>>),
    PyList(<<PyStr(<<"i", "d">>)>>),
    PyList(<<PyStr(<<"i", "d">>), PyStr(<<"n", "a", "m", "e">>)>>),
    PyList(<<PyStr(<<"n", "a", "m", "e">>), PyStr(<<"i", "d">>)>>) }

----------------------------------------------------------------------------
(* Specification of the intent recognizer: the initial states fix the call, *)
(* the only step applies recognize_intent to it                             *)

\* the value of ret while the operation named by call has not returned yet
Pending == [op |-> "none"]

\* the operation op has been applied to the arguments in call
Returned(op) == call.op = op /\ ret # Pending

\* no agent has been constructed: the components are used on their own
NoAgent == [engine_type |-> "none", connected |-> FALSE, execution_engine |-> PyNone]

\* no batch_query is in progress
NoLocals == [i |-> 0, results |-> <<>>, log |-> <<>>]

Standalone == agent = NoAgent /\ effects = <<>> /\ locals = NoLocals

InitIntent ==
  /\ call \in {[op |-> "recognize_intent", query |-> q] : q \in IntentTexts}
  /\ ret = Pending
  /\ Standalone

RecognizeIntent ==
  /\ call.op = "recognize_intent"
  /\ ret = Pending
  /\ ret' = recognize_intent(call.query)
  /\ UNCHANGED <<call, agent, effects, locals>>

NextIntent == RecognizeIntent

SpecIntent == InitIntent /\ [][NextIntent]_vars

----------------------------------------------------------------------------
(* Specification of the query analyzer *)

InitAnalyze ==
  /\ call \in {[op |-> "analyze_query", query |-> q, response |-> r, now |-> n] :
                 q \in QueryTexts, r \in NLUResponses, n \in NowDays}
  /\ ret = Pending
  /\ Standalone

AnalyzeQuery ==
  /\ call.op = "analyze_query"
  /\ ret = Pending
  /\ ret' = analyze_query(call.query, call.response, call.now)
  /\ UNCHANGED <<call, agent, effects, locals>>

NextAnalyze == AnalyzeQuery

SpecAnalyze == InitAnalyze /\ [][NextAnalyze]_vars

----------------------------------------------------------------------------
(* Specification of the SQL generator and the task builder *)

InitSql ==
  /\ call \in {[op |-> o, analyzed_query |-> q, dialect |-> d, now |-> n] :
                 o \in {"generate_sql", "build_task"},
                 q \in SqlQueries, d \in DialectVariants, n \in NowDays}
  /\ ret = Pending
  /\ Standalone

GenerateSql ==
  /\ call.op = "generate_sql"
  /\ ret = Pending
  /\ ret' = [sql |-> generate_sql(call.analyzed_query, call.dialect, call.now)]
  /\ UNCHANGED <<call, agent, effects, locals>>

BuildTask ==
  /\ call.op = "build_task"
  /\ ret = Pending
  /\ ret' = build_task(call.analyzed_query, call.dialect, 1, 3600, call.now)
  /\ UNCHANGED <<call, agent, effects, locals>>

NextSql == GenerateSql \/ BuildTask

SpecSql == InitSql /\ [][NextSql]_vars

----------------------------------------------------------------------------
(* Specification of the cost model *)

InitComplexity ==
  /\ call \in {[op |-> "_calculate_complexity", analyzed_query |-> q] : q \in ComplexityQueries}
  /\ ret = Pending
  /\ Standalone

CalculateComplexity ==
  /\ call.op = "_calculate_complexity"
  /\ ret = Pending
  /\ ret' = [factor |-> _calculate_complexity(call.analyzed_query)]
  /\ UNCHANGED <<call, agent, effects, locals>>

NextComplexity == CalculateComplexity

SpecComplexity == InitComplexity /\ [][NextComplexity]_vars

----------------------------------------------------------------------------
(* Specification of the confidence calculation *)

InitConfidence ==
  /\ call \in {[op |-> "_calculate_confidence",
                intent_result |-> [IntentResult("statistics") EXCEPT !.confidence = c],
                llm_analysis |-> a] :
                 c \in ConfidenceLevels, a \in ConfidenceAnalyses}
  /\ ret = Pending
  /\ Standalone

CalculateConfidence ==
  /\ call.op = "_calculate_confidence"
  /\ ret = Pending
  /\ ret' = [confidence |-> _calculate_confidence(call.intent_result, call.llm_analysis)]
  /\ UNCHANGED <<call, agent, effects, locals>>

NextConfidence == CalculateConfidence

SpecConfidence == InitConfidence /\ [][NextConfidence]_vars

----------------------------------------------------------------------------
(* Specification of the data-source resolution *)

InitDataSource ==
  /\ call \in {[op |-> "_parse_data_source", query |-> q, llm_analysis |-> a] :
                 q \in EntityTexts, a \in EntityAnalyses}
  /\ ret = Pending
  /\ Standalone

ParseDataSource ==
  /\ call.op = "_parse_data_source"
  /\ ret = Pending
  /\ ret' = _parse_data_source(call.query, call.llm_analysis)
  /\ UNCHANGED <<call, agent, effects, locals>>

NextDataSource == ParseDataSource

SpecDataSource == InitDataSource /\ [][NextDataSource]_vars

----------------------------------------------------------------------------
(* Specification of threads sharing one IntentRecognizer and one           *)
(* SQLGenerator: agent holds the attributes of the instances, call, ret and *)
(* locals the call, the result and the local variables of each thread, and  *)
(* effects the threads whose call ran while another call was in progress    *)

InitShared ==
  /\ agent = SharedInstances
  /\ call \in [Threads -> SharedCalls]
  /\ ret = [t \in Threads |-> Pending]
  /\ locals = [t \in Threads |-> [pc |-> "start"]]
  /\ effects = {}

\* the call of thread t has started and has not returned
InProgress(t) == locals[t].pc \notin {"start", "done"}

\* thread t takes the step: the instance and its frame change, and the call
\* returns when the frame is done
ThreadSteps(t, step) ==
  /\ agent' = step.self
  /\ locals' = [locals EXCEPT ![t] = step.frame]
  /\ ret' = [ret EXCEPT ![t] = IF step.frame.pc = "done" THEN Return(step.frame.result)
                                ELSE Pending]
  /\ effects' = effects \cup {u \in Threads : u # t /\ InProgress(u)}
                        \cup {u \in {t} : \E v \in Threads : v # t /\ InProgress(v)}
  /\ UNCHANGED call

RecognizeStep ==
  \E t \in Threads :
    /\ call[t].op = "recognize_intent"
    /\ locals[t].pc # "done"
    /\ ThreadSteps(t, recognize_intent_step(agent, call[t].query, locals[t]))

GenerateStep ==
  \E t \in Threads :
    /\ call[t].op = "generate_sql"
    /\ locals[t].pc # "done"
    /\ ThreadSteps(t, generate_sql_step(agent, call[t], locals[t]))

NextShared == RecognizeStep \/ GenerateStep

SpecShared == InitShared /\ [][NextShared]_vars

----------------------------------------------------------------------------
(* Specification of the IR of a request on its way to the task: analyze_query, *)
(* then build_task or the cost model on the IR it returned                   *)

\* the request texts, and one in which 今天 precedes 昨天 in the keyword list
PipelineTexts == QueryTexts \cup {<<"zuo", "tian", "jin", "tian">>}

InitPipeline ==
  /\ call \in {[op |-> "analyze_query", query |-> q, response |-> r, now |-> n] :
                 q \in PipelineTexts, r \in PipelineResponses, n \in NowDays}
  /\ ret = Pending
  /\ Standalone

BuildAnalyzed ==
  /\ Returned("analyze_query")
  /\ ret.exc = "none"
  /\ \E e \in PipelineEngines :
       /\ call' = [op |-> "build_task", analyzed_query |-> ret.value, dialect |-> e,
                   now |-> call.now, query |-> call.query, response |-> call.response]
       /\ ret' = build_task(ret.value, e, 1, 3600, call.now)
  /\ UNCHANGED <<agent, effects, locals>>

ComplexityAnalyzed ==
  /\ Returned("analyze_query")
  /\ ret.exc = "none"
  /\ call' = [op |-> "_calculate_complexity", analyzed_query |-> ret.value,
              now |-> call.now, query |-> call.query, response |-> call.response]
  /\ ret' = [factor |-> _calculate_complexity(ret.value)]
  /\ UNCHANGED <<agent, effects, locals>>

NextPipeline == AnalyzeQuery \/ BuildAnalyzed \/ ComplexityAnalyzed

SpecPipeline == InitPipeline /\ [][NextPipeline]_vars

----------------------------------------------------------------------------
(* Specification of the chart formatter *)

InitChart ==
  /\ call \in {[op |-> "ChartFormatter_format", data |-> d, columns |-> c,
                analyzed_query |-> q] :
                 d \in ChartData, c \in ChartColumns, q \in ChartQueries}
  /\ ret = Pending
  /\ Standalone

FormatChart ==
  /\ call.op = "ChartFormatter_format"
  /\ ret = Pending
  /\ ret' = ChartFormatter_format(call.data, call.columns, call.analyzed_query)
  /\ UNCHANGED <<call, agent, effects, locals>>

NextChart == FormatChart

SpecChart == InitChart /\ [][NextChart]_vars

----------------------------------------------------------------------------
(* Specification of the CSV formatter *)

InitCsv ==
  /\ call \in {[op |-> "CSVFormatter_format", data |-> d, columns |-> c,
                analyzed_query |-> q] :
                 d \in CsvData, c \in CsvColumns,
                 q \in {x \in ChartQueries : x.intent_result.intent = "statistics"}}
  /\ ret = Pending
  /\ Standalone

FormatCsv ==
  /\ call.op = "CSVFormatter_format"
  /\ ret = Pending
  /\ ret' = CSVFormatter_format(call.data, call.columns, call.analyzed_query)
  /\ UNCHANGED <<call, agent, effects, locals>>

NextCsv == FormatCsv

SpecCsv == InitCsv /\ [][NextCsv]_vars

----------------------------------------------------------------------------
(* Specification of the result processor *)

InitResult ==
  /\ call \in ProcessCalls \cup PaginateCalls
  /\ ret = Pending
  /\ Standalone

ProcessResult ==
  /\ call.op = "process_result"
  /\ ret = Pending
  /\ LET r == process_result(call.execution_result, call.analyzed_query,
                             call.output_format, call.now)
     IN  /\ ret' = r.outcome
         /\ effects' = r.invoked
  /\ UNCHANGED <<call, agent, locals>>

PaginateResult ==
  /\ call.op = "paginate_result"
  /\ ret = Pending
  /\ ret' = paginate_result(call.processed_result, call.page, call.page_size)
  /\ UNCHANGED <<call, agent, effects, locals>>

NextResult == ProcessResult \/ PaginateResult

SpecResult == InitResult /\ [][NextResult]_vars

----------------------------------------------------------------------------
(* Specification of the agent: connect, disconnect and query are single     *)
(* steps; batch_query takes one step per request.  The agent is used by one *)
(* caller, which makes its next call after the previous one has returned    *)

\* the caller is between two calls
Idle == [op |-> "idle"]

\* a batch_query has been started and has not returned
Busy == call.op = "batch_query" /\ ret = Pending

InitAgent ==
  /\ agent \in {BigDataAgent(e) : e \in EngineTypes}
  /\ call = Idle
  /\ ret = Pending
  /\ effects = <<>>
  /\ locals = NoLocals

Connect ==
  /\ call = Idle
  /\ \E library_installed \in BOOLEAN, accepted \in BOOLEAN :
       LET r == connect(agent, library_installed, accepted)
       IN  /\ agent' = r.self
           /\ ret' = Return(PyBool(r.result))
  /\ call' = [op |-> "connect"]
  /\ effects' = <<>>
  /\ locals' = NoLocals

Disconnect ==
  /\ call = Idle
  /\ agent' = disconnect(agent)
  /\ call' = [op |-> "disconnect"]
  /\ ret' = Return(PyNone)
  /\ effects' = <<>>
  /\ locals' = NoLocals

\* query returns result to the caller, whose call was made
QueryReturns(result, made) ==
  /\ call' = made
  /\ ret' = result.outcome
  /\ effects' = result.invoked

Query ==
  /\ call = Idle
  /\ \E q \in AgentQueries, f \in AgentFormats, r \in AgentResponses,
        b \in BackendOutcomes, e \in Durations, n \in NowDays :
       QueryReturns(query(agent, q, f, r, b, e, n),
                    [op |-> "query", user_query |-> q, output_format |-> f,
                     response |-> r, backend |-> b, elapsed |-> e, now |-> n])
  /\ locals' = NoLocals
  /\ UNCHANGED agent

PreviewQuery ==
  /\ call = Idle
  /\ \E q \in AgentQueries, r \in AgentResponses, b \in BackendOutcomes, n \in NowDays :
       QueryReturns(preview_query(agent, q, 5, r, b, n),
                    [op |-> "preview_query", user_query |-> q, sample_size |-> 5,
                     response |-> r, backend |-> b, now |-> n])
  /\ locals' = NoLocals
  /\ UNCHANGED agent

BatchStart ==
  /\ call = Idle
  /\ \E qs \in SeqsUpTo(AgentQueries, MaxBatch), f \in AgentFormats :
       call' = [op |-> "batch_query", queries |-> qs, output_format |-> f]
  /\ ret' = Pending
  /\ effects' = <<>>
  /\ locals' = NoLocals
  /\ UNCHANGED agent

\* the loop of batch_query has made the iteration step
BatchAdvances(step) ==
  /\ locals' = [i |-> step.i, results |-> step.results, log |-> step.log]
  /\ effects' = effects \o step.invoked

BatchStep ==
  /\ Busy
  /\ locals.i < Len(call.queries)
  /\ \E r \in AgentResponses, b \in BackendOutcomes, e \in Durations, n \in NowDays :
       BatchAdvances(batch_query_step(agent, locals, call.queries[locals.i + 1],
                                      call.output_format, r, b, e, n))
  /\ UNCHANGED <<call, ret, agent>>

BatchReturn ==
  /\ Busy
  /\ locals.i = Len(call.queries)
  /\ ret' = Return(locals.results)
  /\ UNCHANGED <<call, agent, effects, locals>>

\* the caller has the result of its call
Resume ==
  /\ call # Idle
  /\ ret # Pending
  /\ call' = Idle
  /\ ret' = Pending
  /\ effects' = <<>>
  /\ locals' = NoLocals
  /\ UNCHANGED agent

NextAgent ==
  Connect \/ Disconnect \/ Query \/ PreviewQuery \/ BatchStart \/ BatchStep \/ BatchReturn \/ Resume

SpecAgent == InitAgent /\ [][NextAgent]_vars

----------------------------------------------------------------------------
(* Specification of a request text turned into a statement: analyze_query, *)
(* then generate_sql on the IR it returned                                 *)

GenerateAnalyzed ==
  /\ Returned("analyze_query")
  /\ ret.exc = "none"
  /\ \E d \in DialectVariants :
       /\ call' = [op |-> "generate_sql", analyzed_query |-> ret.value, dialect |-> d,
                   now |-> call.now, query |-> call.query, response |-> call.response]
       /\ ret' = [sql |-> generate_sql(ret.value, d, call.now)]
  /\ UNCHANGED <<agent, effects, locals>>

NextStatement == AnalyzeQuery \/ GenerateAnalyzed

SpecStatement == InitAnalyze /\ [][NextStatement]_vars

----------------------------------------------------------------------------
(* Specification of the statements of request texts that name a time window *)

InitWindow ==
  /\ call \in {[op |-> "analyze_query", query |-> q, response |-> r, now |-> n] :
                 q \in WindowTexts, r \in NLUResponses, n \in NowDays}
  /\ ret = Pending
  /\ Standalone

SpecWindow == InitWindow /\ [][NextStatement]_vars

----------------------------------------------------------------------------
(* Properties of the intent recognizer *)

Intents == {IntentOrder[i] : i \in 1..Len(IntentOrder)}

\* the position of an intent in the tie-breaking order
Priority(intent) == IndexOf(intent, IntentOrder)

\* C9: for every input text the confidence of the IntentResult returned by
\* recognize_intent lies in [0, 1]
C9_ConfidenceInUnitInterval ==
  Returned("recognize_intent") => (0 <= ret.confidence /\ ret.confidence <= Unit)

\* a text matching three of the eight statistics keywords: confidence 3/8
C9_Witness ==
  /\ Returned("recognize_intent")
  /\ ret.intent = "statistics"
  /\ ret.confidence = (3 * Unit) \div 8

\* C10: the returned category has the maximum keyword score; among the
\* categories of maximum score the one earliest in the fixed order
\* IntentOrder wins; when every score is 0 the result is statistics with
\* confidence 0.5
C10_MaxScoreFixedPriority ==
  Returned("recognize_intent") =>
    IF \A i \in Intents : IntentScore(i, call.query) = 0
      THEN ret.intent = "statistics" /\ 2 * ret.confidence = Unit
      ELSE /\ ret.intent \in Intents
           /\ \A i \in Intents :
                IntentScore(i, call.query) <= IntentScore(ret.intent, call.query)
           /\ \A i \in Intents \ {ret.intent} :
                IntentScore(i, call.query) = IntentScore(ret.intent, call.query)
                  => Priority(ret.intent) < Priority(i)

\* two categories tie with a positive score and the earlier one is returned
C10_Witness ==
  /\ Returned("recognize_intent")
  /\ IntentScore("analysis", call.query) = 1
  /\ IntentScore("trend", call.query) = 1
  /\ \A i \in Intents : IntentScore(i, call.query) <= 1
  /\ ret.intent = "analysis"

----------------------------------------------------------------------------
(* Properties of the query analyzer *)

\* the reply is the JSON object asked for: an object with string fields
ExpectedShape(response) ==
  /\ response.kind = "json"
  /\ response.value.t = "dict"
  /\ \A k \in DOMAIN response.value.v : response.value.v[k].t = "str"

\* the reply did not parse as JSON at all
NoParse == [kind |-> "text", value |-> PyNone]

\* C1: for every NLU outcome that is not the expected JSON object (the call
\* raising, text that is not JSON, JSON that is not an object with string
\* fields) analyze_query does not raise and returns the IR it builds when
\* the NLU supplies nothing
C1_NluFailureFallsBack ==
  (Returned("analyze_query") /\ ~ExpectedShape(call.response)) =>
    /\ ret.exc = "none"
    /\ ret = analyze_query(call.query, NoParse, call.now)

\* when the NLU call raises or its reply is not JSON, analyze_query returns
\* an IR whose description and entity come from the intent result
C1_HandledFailures ==
  (Returned("analyze_query") /\ call.response.kind # "json") =>
    /\ ret.exc = "none"
    /\ ret.value.description =
         PyStr(IntentValue[recognize_intent(call.query).intent] \o <<"cha2", "xun">>)
    /\ ret.value.intent_result = recognize_intent(call.query)

----------------------------------------------------------------------------
(* Properties of the SQL generator and the task builder *)

\* every ")" closes an earlier "(" and every "(" is closed
Balanced(s) ==
  /\ CountChar(s, "(") = CountChar(s, ")")
  /\ \A i \in 1..Len(s) :
       CountChar(SubSeq(s, 1, i), ")") <= CountChar(SubSeq(s, 1, i), "(")

\* C2: for every IR and every dialect the statement returned by generate_sql
\* starts with SELECT, contains FROM and has balanced parentheses
C2_StatementWellFormed ==
  Returned("generate_sql") =>
    /\ StartsWith(ret.sql, <<"S", "E", "L", "E", "C", "T">>)
    /\ Contains(ret.sql, <<"F", "R", "O", "M">>)
    /\ Balanced(ret.sql)

\* the main statement of the task a build_task call is about
MainStatement == generate_sql(call.analyzed_query, call.dialect, call.now)

C3_WitnessRaise ==
  /\ Returned("build_task")
  /\ ret.exc = "ValueError"
  /\ CountChar(MainStatement, "(") > CountChar(MainStatement, ")")

----------------------------------------------------------------------------
(* Properties of the cost model *)

\* the features of the query of a _calculate_complexity call
ManyConditions == Len(call.analyzed_query.conditions) > 3

HasAggregation == call.analyzed_query.aggregations # PyNone

ManyGroups == HasAggregation /\ Len(call.analyzed_query.aggregations.group_by) > 2

LongWindow ==
  /\ call.analyzed_query.time_range # PyNone
  /\ call.analyzed_query.time_range.relative_days # PyNone
  /\ call.analyzed_query.time_range.relative_days.v > 30

Analytic == call.analyzed_query.intent_result.intent \in {"analysis", "trend", "correlation"}

\* the product of the applicable multipliers as a fraction: x1.5 = 3/2, x2.0, x1.2 = 6/5
MultiplierNum ==
  (IF ManyConditions THEN 3 ELSE 1) * (IF HasAggregation THEN 2 ELSE 1)
    * (IF ManyGroups THEN 3 ELSE 1) * (IF LongWindow THEN 6 ELSE 1)
    * (IF Analytic THEN 3 ELSE 1)

MultiplierDen ==
  (IF ManyConditions THEN 2 ELSE 1) * (IF ManyGroups THEN 2 ELSE 1)
    * (IF LongWindow THEN 5 ELSE 1) * (IF Analytic THEN 2 ELSE 1)

\* C7: the complexity factor is min(5.0, product of the applicable
\* multipliers) and lies in [1.0, 5.0]
C7_ComplexityIsClampedProduct ==
  Returned("_calculate_complexity") =>
    /\ ret.factor * MultiplierDen = Min2(5 * Unit * MultiplierDen, Unit * MultiplierNum)
    /\ Unit <= ret.factor
    /\ ret.factor <= 5 * Unit

\* every multiplier applies: the product 8.1 is clamped to 5.0
C7_Witness ==
  /\ Returned("_calculate_complexity")
  /\ ManyConditions /\ ManyGroups /\ LongWindow /\ Analytic
  /\ ret.factor = 5 * Unit

----------------------------------------------------------------------------
(* Properties of the result processor *)

\* the success flag of the outcome is false or missing
FailedOutcome ==
  \/ "success" \notin DOMAIN call.execution_result
  \/ call.execution_result.success = PyBool(FALSE)

\* C4: for an execution outcome whose success flag is false or missing, and
\* whatever the requested format, process_result returns an envelope with
\* success=false carrying the error message, the task id and the execution
\* time of the outcome, with no data payload, and invokes no formatter
C4_FailedOutcomeShortCircuits ==
  (Returned("process_result") /\ FailedOutcome) =>
    /\ ret.exc = "none"
    /\ ret.value.success = PyBool(FALSE)
    /\ "error" \in DOMAIN ret.value
    /\ "error" \in DOMAIN call.execution_result => ret.value.error = call.execution_result.error
    /\ ret.value.task_id = Get(call.execution_result, "task_id", PyNone)
    /\ "execution_time" \in DOMAIN ret.value
    /\ "execution_time" \in DOMAIN call.execution_result =>
         ret.value.execution_time = call.execution_result.execution_time
    /\ "data" \notin DOMAIN ret.value
    /\ effects = <<>>

\* an outcome without a success flag that has rows, asked for as csv
C4_Witness ==
  /\ Returned("process_result")
  /\ "success" \notin DOMAIN call.execution_result
  /\ Truthy(call.execution_result.data)
  /\ call.output_format = <<"c", "s", "v">>
  /\ ret.value.success = PyBool(FALSE)
  /\ ret.value.error = PyStr(<<"b", "o", "o", "m">>)

\* the rows of the envelope given to paginate_result, when it has rows
HasRows ==
  /\ Truthy(Get(call.processed_result, "success", PyBool(FALSE)))
  /\ "data" \in DOMAIN call.processed_result
  /\ \/ call.processed_result.data.t = "list"
     \/ /\ call.processed_result.data.t = "dict"
        /\ "rows" \in DOMAIN call.processed_result.data.v

InputRows ==
  IF call.processed_result.data.t = "list" THEN call.processed_result.data.v
  ELSE call.processed_result.data.v.rows.v

\* ceil(n / z) for a page size z >= 1; no page is in range for another size
TotalPages(n, z) == IF z >= 1 THEN (n + z - 1) \div z ELSE 0

\* C8: paginate_result on a successful envelope with N rows, page size s and
\* page p: for p in 1..ceil(N/s) the slice is rows (p-1)*s up to min(p*s, N),
\* total_pages = ceil(N/s), has_next iff p*s < N and has_prev iff p > 1; for
\* every other page number the slice is empty; no page or page size raises
C8_PaginationSlices ==
  (Returned("paginate_result") /\ HasRows) =>
    LET N == Len(InputRows)
        z == call.page_size
        p == call.page
    IN  /\ ret.exc = "none"
        /\ p \in 1..TotalPages(N, z) =>
             /\ ret.value.data.v.rows.v = SubSeq(InputRows, (p - 1) * z + 1, Min2(p * z, N))
             /\ ret.value.data.v.pagination.v.total_pages = PyInt(TotalPages(N, z))
             /\ ret.value.data.v.pagination.v.has_next = PyBool(p * z < N)
             /\ ret.value.data.v.pagination.v.has_prev = PyBool(p > 1)
        /\ p \notin 1..TotalPages(N, z) => ret.value.data.v.rows.v = <<>>

\* what holds of the code: the same for page numbers and page sizes of at least 1
C8_PositivePagesAndSizes ==
  (Returned("paginate_result") /\ HasRows /\ call.page >= 1 /\ call.page_size >= 1) =>
    C8_PaginationSlices

----------------------------------------------------------------------------
(* Properties of the agent *)

\* C5: query never raises, whichever step fails: it returns an envelope with
\* a success flag and, on failure, an error text and the time of the failure
C5_QueryReturnsEnvelope ==
  Returned("query") =>
    /\ ret.exc = "none"
    /\ "success" \in DOMAIN ret.value
    /\ ~Truthy(ret.value.success) =>
         /\ "error" \in DOMAIN ret.value
         /\ ret.value.error.t = "str"
         /\ ret.value.error.v # <<>>
         /\ "timestamp" \in DOMAIN ret.value

\* a step of the pipeline has raised
PipelineRaised ==
  /\ Returned("query")
  /\ agent.connected
  /\ "execution_time" \in DOMAIN ret.value
  /\ ~Truthy(ret.value.success)

\* the NLU answers JSON null to a connected agent and the analysis raises
C5_Witness ==
  /\ PipelineRaised
  /\ call.response = [kind |-> "json", value |-> PyNone]
  /\ effects = <<"analyze_query">>

\* the backend fails the statement of a connected agent
C5_WitnessBackend ==
  /\ PipelineRaised
  /\ call.backend.kind = "error"
  /\ \E i \in 1..Len(effects) : effects[i] = "execute_query"

\* C6: batch_query over n requests returns n envelopes in request order, the
\* i-th carrying batch_index i and being what query makes of the i-th
\* request; a failed request has its own envelope with success=false and the
\* requests after it are processed
C6_BatchInOrderIsolated ==
  Returned("batch_query") =>
    LET n == Len(call.queries)
    IN  /\ Len(ret.value) = n
        /\ Len(locals.log) = n
        /\ \A i \in 1..n :
             /\ locals.log[i].query = call.queries[i]
             /\ "success" \in DOMAIN ret.value[i]
             /\ ret.value[i].batch_index = PyInt(i)
             /\ ret.value[i] =
                  SetKey(query(agent, call.queries[i], call.output_format,
                               locals.log[i].response, locals.log[i].backend,
                               locals.log[i].elapsed, locals.log[i].now).outcome.value,
                         "batch_index", PyInt(i))

\* the first of two requests fails in the analysis and the second one still
\* reaches the backend
C6_Witness ==
  /\ Returned("batch_query")
  /\ Len(call.queries) = 2
  /\ agent.connected
  /\ locals.log[1].response = [kind |-> "json", value |-> PyNone]
  /\ ~Truthy(ret.value[1].success)
  /\ Len(ret.value) = 2
  /\ \E i \in 2..Len(effects) : effects[i] = "execute_query"

----------------------------------------------------------------------------
(* Properties of a request text turned into a statement *)

\* the text of s after the first occurrence of sub, empty without one
After(s, sub) ==
  LET at == {i \in 1..(Len(s) - Len(sub) + 1) : SubSeq(s, i, i + Len(sub) - 1) = sub}
  IN  IF at = {} THEN <<>>
      ELSE LET first == CHOOSE i \in at : \A j \in at : i <= j
           IN  SubSeq(s, first + Len(sub), Len(s))

\* the request text holds a statistics keyword and the date phrase 昨天
StatisticsOfYesterday(text) ==
  /\ \E i \in 1..Len(intent_keywords.statistics) :
       Contains(Lower(text), intent_keywords.statistics[i])
  /\ Contains(text, <<"zuo", "tian">>)

\* the statement filters on the date field with an equality and names its
\* table with the database when the dialect qualifies names
DateFilterAndQualifiedFrom ==
  LET source == call.analyzed_query.data_source
  IN  /\ Contains(After(ret.sql, <<" ", "W", "H", "E", "R", "E", " ">>), <<"d", "a", "t", "e", " ", "=", " ", "'">>)
      /\ (Truthy(source.database) /\ call.dialect \in {<<"h", "i", "v", "e">>, <<"s", "p", "a", "r", "k">>}) =>
           Contains(ret.sql, <<" ", "F", "R", "O", "M", " ">> \o Str(source.database) \o <<".">> \o source.table)

\* C11: for every request text with a statistics keyword and 昨天, whatever
\* the NLU returns, analyze_query followed by generate_sql produces a
\* statement whose WHERE clause has an equality predicate on the date field
\* and whose FROM clause is database-qualified when the source has a
\* database and the dialect is hive or spark
C11_YesterdayStatisticsStatement ==
  (ret # Pending /\ StatisticsOfYesterday(call.query)) =>
    /\ call.op = "analyze_query" => ret.exc = "none"
    /\ call.op = "generate_sql" => DateFilterAndQualifiedFrom

\* whenever analyze_query returns an IR for such a text, the statement
\* generated from it has the date filter and the qualified table
C11_StatementOfReturnedAnalysis ==
  (Returned("generate_sql") /\ StatisticsOfYesterday(call.query)) =>
    DateFilterAndQualifiedFrom

\* a statement generated for hive from such a text with a raising NLU call
C11_Witness ==
  /\ Returned("generate_sql")
  /\ StatisticsOfYesterday(call.query)
  /\ call.response.kind = "raise"
  /\ call.dialect = <<"h", "i", "v", "e">>
  /\ DateFilterAndQualifiedFrom

----------------------------------------------------------------------------
(* Properties of the dialects *)

\* C12: for every IR and every dialect outside hive, spark, clickhouse and
\* presto, generate_sql raises nothing and returns exactly the statement it
\* returns for the default dialect hive
C12_UnsupportedDialectIsHive ==
  (Returned("generate_sql") /\ call.dialect \notin supported_dialects) =>
    ret = [sql |-> generate_sql(call.analyzed_query, <<"h", "i", "v", "e">>, call.now)]

\* the unsupported dialect mysql on a source with a database: the table is
\* qualified the way hive qualifies it
C12_Witness ==
  /\ Returned("generate_sql")
  /\ call.dialect = <<"m", "y", "s", "q", "l">>
  /\ Truthy(call.analyzed_query.data_source.database)
  /\ Contains(ret.sql, <<" ", "F", "R", "O", "M", " ", "d", "e", "f", "a", "u", "l", "t", ".", "u", "s", "e", "r", "_", "i", "n", "f", "o">>)

----------------------------------------------------------------------------
(* Properties of the statements of a task *)

\* the text of s before the first occurrence of sub, s itself without one
Before(s, sub) ==
  LET at == {i \in 1..(Len(s) - Len(sub) + 1) : SubSeq(s, i, i + Len(sub) - 1) = sub}
  IN  IF at = {} THEN s
      ELSE LET first == CHOOSE i \in at : \A j \in at : i <= j
           IN  SubSeq(s, 1, first - 1)

\* the table reference of the FROM clause of a statement
FromTable(sql) == Before(After(sql, <<" ", "F", "R", "O", "M", " ">>), <<" ">>)

\* the predicates of the WHERE clause of a statement, empty without a clause
WherePredicates(sql) ==
  Before(Before(Before(After(sql, <<" ", "W", "H", "E", "R", "E", " ">>), <<" ", "G", "R", "O", "U", "P", " ", "B", "Y", " ">>), <<" ", "O", "R", "D", "E", "R", " ", "B", "Y", " ">>), <<" ", "L", "I", "M", "I", "T", " ">>)

\* the derived statement has the table and the predicates of the main one
SameFromWhere(derived, main) ==
  /\ FromTable(derived) = FromTable(main)
  /\ WherePredicates(derived) = WherePredicates(main)

\* C13: for every IR and every dialect or engine string, supported or not,
\* the COUNT(*) statement and the sample statement of a task have the same
\* FROM table reference and the same WHERE predicates as its main statement
C13_DerivedStatementsShareFromWhere ==
  (Returned("build_task") /\ ret.exc = "none") =>
    /\ StartsWith(ret.value.count_sql, <<"S", "E", "L", "E", "C", "T", " ", "C", "O", "U", "N", "T", "(", "*", ")", " ", "a", "s", " ", "t", "o", "t", "a", "l", "_", "c", "o", "u", "n", "t", " ", "F", "R", "O", "M", " ">>)
    /\ SameFromWhere(ret.value.count_sql, ret.value.sql_query)
    /\ SameFromWhere(ret.value.sample_sql, ret.value.sql_query)

\* for the supported dialects the three statements agree
C13_SupportedDialectsShareFromWhere ==
  (Returned("build_task") /\ ret.exc = "none" /\ call.dialect \in supported_dialects) =>
    /\ SameFromWhere(ret.value.count_sql, ret.value.sql_query)
    /\ SameFromWhere(ret.value.sample_sql, ret.value.sql_query)

\* a task for hive whose three statements share a qualified table and a
\* non-empty WHERE clause
C13_Witness ==
  /\ Returned("build_task")
  /\ ret.exc = "none"
  /\ call.dialect = <<"h", "i", "v", "e">>
  /\ FromTable(ret.value.sql_query) = <<"d", "e", "f", "a", "u", "l", "t", ".", "u", "s", "e", "r", "_", "i", "n", "f", "o">>
  /\ WherePredicates(ret.value.sql_query) # <<>>
  /\ SameFromWhere(ret.value.count_sql, ret.value.sql_query)

----------------------------------------------------------------------------
(* Properties of the WHERE clause *)

\* the time window is absent or holds neither a relative length nor a date
NoBound(time_range) ==
  \/ time_range = PyNone
  \/ /\ ~Truthy(time_range.relative_days)
     /\ ~Truthy(time_range.start_date)
     /\ ~Truthy(time_range.end_date)

\* one predicate per condition of the IR, in the order of the IR, then the
\* predicate of the time window when it has a bound
ExpectedPredicates(analyzed_query, now) ==
  [i \in 1..Len(analyzed_query.conditions) |->
     _condition_to_sql(analyzed_query.conditions[i])]
    \o (IF NoBound(analyzed_query.time_range) THEN <<>>
        ELSE <<_time_range_to_sql(analyzed_query.time_range, now).v>>)

\* C14: the WHERE clause is the AND-join of one predicate per IR condition,
\* in IR order and whatever the logical_op of the conditions, followed by the
\* time-window predicate when there is one; the keyword WHERE is left out
\* exactly when there is no condition and the window is absent or unbounded
C14_WhereIsAndJoin ==
  Returned("generate_sql") =>
    LET q == call.analyzed_query
    IN  /\ ~Contains(ret.sql, <<"W", "H", "E", "R", "E">>) <=> (q.conditions = <<>> /\ NoBound(q.time_range))
        /\ Contains(ret.sql, <<"W", "H", "E", "R", "E">>) =>
             WherePredicates(ret.sql) = Join(ExpectedPredicates(q, call.now), <<" ", "A", "N", "D", " ">>)

\* two conditions, the second one marked OR, and a bounded window: three
\* predicates
C14_Witness ==
  /\ Returned("generate_sql")
  /\ Len(call.analyzed_query.conditions) = 2
  /\ call.analyzed_query.conditions[2].logical_op = "OR"
  /\ ~NoBound(call.analyzed_query.time_range)
  /\ Len(ExpectedPredicates(call.analyzed_query, call.now)) = 3
  /\ Contains(ret.sql, <<" ", "W", "H", "E", "R", "E", " ", "d", "a", "t", "e", " ", "=", " ", "'", "2", "0", "2", "4", "-", "0", "2", "-", "2", "9", "'", " ", "A", "N", "D", " ", "i", "d", " ", "I", "N", " ", "(", "1", ",", " ", "2", ")", " ", "A", "N", "D", " ", "d", "a", "t", "e", " ", ">", "=", " ", "'">>)

\* an IR without conditions whose window has no bound: no WHERE keyword
C14_WitnessOmitted ==
  /\ Returned("generate_sql")
  /\ call.analyzed_query.conditions = <<>>
  /\ call.analyzed_query.time_range = TimeRange(PyNone, PyNone, PyNone)
  /\ ~Contains(ret.sql, <<"W", "H", "E", "R", "E">>)

----------------------------------------------------------------------------
(* Properties of the confidence calculation *)

\* the analysis holds a value under key that is neither null nor empty
Present(key) ==
  /\ key \in DOMAIN call.llm_analysis.v
  /\ call.llm_analysis.v[key] \notin {PyNone, PyStr(<<>>)}

\* amount when the analysis holds a value under key, nothing otherwise
BoostFor(key, amount) == IF Present(key) THEN amount ELSE 0

\* C15: the combined confidence is min(intent confidence + 0.2 if the NLU
\* data_entity is present + 0.1 if the NLU conditions description is present
\* + 0.1 if the NLU aggregations description is present, 1.0); it is never
\* below the intent confidence and lies in [0, 1].  Present: the field holds
\* a value that is neither null nor empty
C15_CombinedConfidence ==
  Returned("_calculate_confidence") =>
    /\ ret.confidence =
         Min2(call.intent_result.confidence
                + BoostFor("data_entity", (2 * Unit) \div 10)
                + BoostFor("conditions", Unit \div 10)
                + BoostFor("aggregations", Unit \div 10),
              Unit)
    /\ call.intent_result.confidence <= ret.confidence
    /\ 0 <= ret.confidence
    /\ ret.confidence <= Unit

\* an intent confidence of 7/8 with the entity and the conditions present:
\* the sum 1.175 is cut to 1.0
C15_Witness ==
  /\ Returned("_calculate_confidence")
  /\ call.intent_result.confidence = (7 * Unit) \div 8
  /\ Present("data_entity")
  /\ Present("conditions")
  /\ ~Present("aggregations")
  /\ ret.confidence = Unit

\* an empty entity text earns nothing: 0.5 + 0.1 = 0.6
C15_WitnessEmptyEntity ==
  /\ Returned("_calculate_confidence")
  /\ call.intent_result.confidence = Unit \div 2
  /\ "data_entity" \in DOMAIN call.llm_analysis.v
  /\ ~Present("data_entity")
  /\ Present("conditions")
  /\ ~Present("aggregations")
  /\ ret.confidence = (6 * Unit) \div 10

----------------------------------------------------------------------------
(* Properties of the data-source resolution *)

\* the data_entity text of the analysis, empty when the field holds no text
EntityText ==
  IF "data_entity" \in DOMAIN call.llm_analysis.v
       /\ call.llm_analysis.v.data_entity.t = "str"
    THEN call.llm_analysis.v.data_entity.v
    ELSE <<>>

\* the positions of the entity keys that occur in the data_entity text or in
\* the request text
KeysOccurring ==
  {i \in 1..Len(data_source_mapping) :
     \/ Contains(EntityText, data_source_mapping[i].key)
     \/ Contains(call.query, data_source_mapping[i].key)}

\* the source of the first key occurring, the source of 用户 without one
ResolvedSource ==
  IF KeysOccurring = {} THEN data_source_mapping[1].source
  ELSE data_source_mapping[CHOOSE i \in KeysOccurring : \A j \in KeysOccurring : i <= j].source

\* C16: data-source resolution always returns a source: the one of the first
\* entity key, in the order 用户, 订单, 商品, 日志, that occurs in the NLU
\* data_entity field or in the request text, and the default source when no
\* key occurs in either
C16_SourceAlwaysResolved ==
  Returned("_parse_data_source") =>
    /\ ret.exc = "none"
    /\ ret.value = ResolvedSource

\* with a data_entity that is a text or is missing, the source is resolved
\* as stated
C16_SourceResolvedFromTexts ==
  (Returned("_parse_data_source")
     /\ ("data_entity" \in DOMAIN call.llm_analysis.v
           => call.llm_analysis.v.data_entity.t = "str")) =>
    /\ ret.exc = "none"
    /\ ret.value = ResolvedSource

\* the request names 日志, the NLU names 订单: the earlier key wins
C16_Witness ==
  /\ Returned("_parse_data_source")
  /\ call.query = <<"ri", "zhi4">>
  /\ EntityText = <<"ding", "dan">>
  /\ ret.exc = "none"
  /\ ret.value.table = <<"o", "r", "d", "e", "r", "_", "i", "n", "f", "o">>

----------------------------------------------------------------------------
(* Properties of the chart formatter *)

\* the type of the chart returned: bar, horizontal bar, line, pie, table, or
\* chart for the placeholder of an empty result set
ChartType ==
  IF ret.value.v.type = PyStr(<<"b", "a", "r">>) /\ ret.value.v.horizontal = PyBool(TRUE)
    THEN <<"h", "o", "r", "i", "z", "o", "n", "t", "a", "l", " ", "b", "a", "r">>
    ELSE ret.value.v.type.v

ChartIntent == call.analyzed_query.intent_result.intent

\* every row of the result set has the first column
RowsHoldFirstColumn ==
  call.columns.v # <<>> =>
    \A r \in 1..Len(call.data.v) : HasKey(call.data.v[r], call.columns.v[1].v)

C17_WitnessOneColumn ==
  /\ Returned("ChartFormatter_format")
  /\ ChartIntent = "statistics"
  /\ Len(call.data.v) = 2
  /\ Len(call.columns.v) = 1
  /\ ChartType = <<"t", "a", "b", "l", "e">>

----------------------------------------------------------------------------
(* Properties of the CSV formatter *)

RECURSIVE ReadCsv(_, _, _, _, _)
\* the records a CSV reader finds in the text s: state is "start" at the
\* start of a field, "field" within an unquoted field, "quoted" within a
\* quoted one, "quote" after a quote in a quoted field and "eol" after a
\* carriage return; a doubled quote stands for one, an empty line is a
\* record without fields
ReadCsv(s, state, field, record, records) ==
  IF s = <<>> THEN
    IF state \in {"field", "quoted", "quote"} \/ (state = "start" /\ record # <<>>)
      THEN records \o <<record \o <<field>>>>
      ELSE records
  ELSE LET c == s[1]
           rest == Tail(s)
           ends == c \in {"\r", "\n"}
           after == IF c = "\r" THEN "eol" ELSE "start"
       IN  CASE state = "eol" ->
                  IF c = "\n" THEN ReadCsv(rest, "start", <<>>, <<>>, records)
                  ELSE ReadCsv(s, "start", <<>>, <<>>, records)
             [] state = "start" ->
                  IF c = "\"" THEN ReadCsv(rest, "quoted", <<>>, record, records)
                  ELSE IF c = "," THEN ReadCsv(rest, "start", <<>>, record \o << <<>> >>, records)
                  ELSE IF ends THEN
                    ReadCsv(rest, after, <<>>, <<>>,
                            records \o <<IF record = <<>> THEN <<>> ELSE record \o << <<>> >> >>)
                  ELSE ReadCsv(rest, "field", <<c>>, record, records)
             [] state = "field" ->
                  IF c = "," THEN ReadCsv(rest, "start", <<>>, record \o <<field>>, records)
                  ELSE IF ends THEN
                    ReadCsv(rest, after, <<>>, <<>>, records \o <<record \o <<field>>>>)
                  ELSE ReadCsv(rest, "field", field \o <<c>>, record, records)
             [] state = "quoted" ->
                  IF c = "\"" THEN ReadCsv(rest, "quote", field, record, records)
                  ELSE ReadCsv(rest, "quoted", field \o <<c>>, record, records)
             [] OTHER ->
                  IF c = "\"" THEN ReadCsv(rest, "quoted", field \o <<c>>, record, records)
                  ELSE IF c = "," THEN ReadCsv(rest, "start", <<>>, record \o <<field>>, records)
                  ELSE IF ends THEN
                    ReadCsv(rest, after, <<>>, <<>>, records \o <<record \o <<field>>>>)
                  ELSE ReadCsv(rest, "field", field \o <<c>>, record, records)

\* the column order: the given columns, or the keys of the first row
CsvOrder ==
  IF call.columns.v # <<>> THEN [i \in 1..Len(call.columns.v) |-> call.columns.v[i].v]
  ELSE call.data.v[1].keys

\* the header, then per row its values as texts in the column order
CsvExpected ==
  <<CsvOrder>> \o
    [r \in 1..Len(call.data.v) |->
       [i \in 1..Len(CsvOrder) |-> CsvText(RowGet(call.data.v[r], CsvOrder[i], PyStr(<<>>)))]]

CsvRoundTrips ==
  /\ ret.exc = "none"
  /\ ReadCsv(ret.value.v, "start", <<>>, <<>>, <<>>) = CsvExpected

\* no row has a key that is not a column
RowsWithinColumns ==
  \A r \in 1..Len(call.data.v) : \A k \in 1..Len(call.data.v[r].keys) :
    \E i \in 1..Len(CsvOrder) : CsvOrder[i] = call.data.v[r].keys[k]

\* C18: the CSV of an empty row list is the empty text; the CSV of a
\* non-empty row list is a header and one record per row in the order of the
\* given columns, or of the first row's keys without columns, and reading it
\* back gives the same texts in that order
C18_CsvRoundTrip ==
  Returned("CSVFormatter_format") =>
    IF call.data.v = <<>> THEN ret = Return(PyStr(<<>>)) ELSE CsvRoundTrips

\* the same for the row lists whose rows have no key outside the columns
C18_RoundTripWithinColumns ==
  (Returned("CSVFormatter_format") /\ call.data.v # <<>> /\ RowsWithinColumns) =>
    CsvRoundTrips

\* a row with a key outside the given columns is refused
C18_Witness ==
  /\ Returned("CSVFormatter_format")
  /\ Len(call.data.v) = 1
  /\ call.columns.v = <<PyStr(<<"i", "d">>)>>
  /\ HasKey(call.data.v[1], <<"n", "a", "m", "e">>)
  /\ ret.exc = "ValueError"

\* quoted texts are read back in swapped column order
C18_WitnessRoundTrip ==
  /\ Returned("CSVFormatter_format")
  /\ call.columns.v = <<PyStr(<<"n", "a", "m", "e">>), PyStr(<<"i", "d">>)>>
  /\ call.data.v = <<Row(<<<<"i", "d">>, <<"n", "a", "m", "e">>>>, <<PyStr(<<"l", "\r", "\n", "m">>), PyStr(<<"q", "\"", "x">>)>>)>>
  /\ CsvRoundTrips

----------------------------------------------------------------------------
(* The agent without a connection *)

\* the caller makes the call op in this step
Calls(op) == call = Idle /\ call'.op = op

\* C19: the agent is connected only from a connect that returned true until
\* the next connect or disconnect, and a query or preview_query made while it
\* is not connected returns an envelope with success false and invokes
\* neither the analyzer, nor the task builder, nor the engine
C19_UnconnectedSkipsPipeline ==
  /\ ~agent.connected
  /\ [][/\ Calls("connect") => (agent'.connected <=> ret' = Return(PyBool(TRUE)))
        /\ Calls("disconnect") => ~agent'.connected
        /\ ~(Calls("connect") \/ Calls("disconnect")) => agent'.connected = agent.connected
        /\ ((Calls("query") \/ Calls("preview_query")) /\ ~agent.connected) =>
             /\ ret'.exc = "none"
             /\ ret'.value.success = PyBool(FALSE)
             /\ effects' = <<>>]_vars

\* preview_query has returned to an agent whose last connect failed
C19_Witness ==
  /\ Returned("preview_query")
  /\ ~agent.connected
  /\ agent.execution_engine # PyNone
  /\ ret.value.success = PyBool(FALSE)
  /\ effects = <<>>

\* query has returned to an agent that has no engine
C19_WitnessQuery ==
  /\ Returned("query")
  /\ ~agent.connected
  /\ agent.execution_engine = PyNone
  /\ ret.value.success = PyBool(FALSE)
  /\ effects = <<>>

\* a connected agent previews rows
C19_WitnessConnected ==
  /\ Returned("preview_query")
  /\ agent.connected
  /\ ret.value.success = PyBool(TRUE)
  /\ "execute_query" \in {effects[i] : i \in 1..Len(effects)}

----------------------------------------------------------------------------
(* Concurrent calls on the shared instances *)

\* what the call gives when it runs alone
AloneResult(made) ==
  IF made.op = "recognize_intent" THEN recognize_intent(made.query)
  ELSE generate_sql(made.analyzed_query, made.dialect, made.now)

\* C20: the calls of concurrent threads on one shared IntentRecognizer and
\* one shared SQLGenerator write no attribute of the instances, and under
\* every interleaving each call returns what it returns when run alone
C20_SharedInstancesAsIfAlone ==
  /\ agent = SharedInstances
  /\ \A t \in Threads : ret[t] # Pending => ret[t] = Return(AloneResult(call[t]))

\* two calls of generate_sql with an unsupported dialect have overlapped and
\* returned
C20_Witness ==
  \E t \in Threads, u \in Threads :
    /\ t # u
    /\ {t, u} \subseteq effects
    /\ call[t].op = "generate_sql" /\ call[t].dialect \notin supported_dialects
    /\ call[u] = call[t]
    /\ ret[t] # Pending /\ ret[u] # Pending

\* a recognize_intent and a generate_sql have overlapped and returned
C20_WitnessMixed ==
  \E t \in Threads, u \in Threads :
    /\ {t, u} \subseteq effects
    /\ call[t].op = "recognize_intent" /\ call[u].op = "generate_sql"
    /\ ret[t] # Pending /\ ret[u] # Pending

----------------------------------------------------------------------------
(* The LIMIT clause *)

\* where sub first occurs in s, 0 when it does not
Position(s, sub) == IF Contains(s, sub) THEN Len(Before(s, sub)) + 1 ELSE 0

\* s.endswith(suffix)
EndsWith(s, suffix) ==
  Len(suffix) <= Len(s) /\ SubSeq(s, Len(s) - Len(suffix) + 1, Len(s)) = suffix

\* the keywords of the clauses in the order of the statement
ClauseKeywords ==
  <<<<"S", "E", "L", "E", "C", "T", " ">>, <<" ", "F", "R", "O", "M", " ">>, <<" ", "W", "H", "E", "R", "E", " ">>, <<" ", "G", "R", "O", "U", "P", " ", "B", "Y", " ">>, <<" ", "O", "R", "D", "E", "R", " ", "B", "Y", " ">>, <<" ", "L", "I", "M", "I", "T", " ">>>>

\* the clauses present in sql come in the order SELECT, FROM, WHERE,
\* GROUP BY, ORDER BY, LIMIT
ClausesInOrder(sql) ==
  \A i \in 1..Len(ClauseKeywords), j \in 1..Len(ClauseKeywords) :
    (i < j /\ Contains(sql, ClauseKeywords[i]) /\ Contains(sql, ClauseKeywords[j]))
      => Position(sql, ClauseKeywords[i]) < Position(sql, ClauseKeywords[j])

\* sql has the LIMIT clause exactly when limit is a number, with that number
\* as the cap at its end
LimitClauseOf(sql, limit) ==
  /\ limit # PyNone => EndsWith(sql, <<" ", "L", "I", "M", "I", "T", " ">> \o IntToStr(limit.v))
  /\ limit = PyNone => ~Contains(sql, <<" ", "L", "I", "M", "I", "T", " ">>)
  /\ ClausesInOrder(sql)

\* C21: generate_sql emits LIMIT exactly when the row limit of the IR is
\* present, the cap is the row limit, and LIMIT is the last clause after
\* SELECT, FROM, WHERE, GROUP BY and ORDER BY in that order
C21_LimitExactlyWhenPresent ==
  Returned("generate_sql") =>
    LimitClauseOf(ret.sql, call.analyzed_query.output_config.limit)

\* the same for the row limits other than 0
C21_LimitOfNonZero ==
  (Returned("generate_sql") /\ call.analyzed_query.output_config.limit # PyInt(0)) =>
    LimitClauseOf(ret.sql, call.analyzed_query.output_config.limit)

\* a row limit of 0 leaves the statement without LIMIT
C21_Witness ==
  /\ Returned("generate_sql")
  /\ call.analyzed_query.output_config.limit = PyInt(0)
  /\ ~Contains(ret.sql, <<" ", "L", "I", "M", "I", "T", " ">>)

\* a statement with all six clauses ends with the cap
C21_WitnessAllClauses ==
  /\ Returned("generate_sql")
  /\ \A i \in 1..Len(ClauseKeywords) : Contains(ret.sql, ClauseKeywords[i])
  /\ EndsWith(ret.sql, <<" ", "L", "I", "M", "I", "T", " ", "1", "0">>)

----------------------------------------------------------------------------
(* Date predicates derived twice *)

\* the date of the day `days` before the request, quoted
Quoted(day) == <<"'">> \o strftime(day) \o <<"'">>

\* both derivations have recognised 昨天: the text has it and the time window
\* is the day before the request
BothYesterday ==
  /\ Contains(call.query, <<"zuo", "tian">>)
  /\ call.analyzed_query.time_range =
       TimeRange(PyStr(strftime(call.now - 1)), PyStr(strftime(call.now - 1)), PyNone)

\* both derivations have recognised a week: the condition derivation gets as
\* far as 最近7天 or 过去一周 in the text and the time window is 7 days
BothLastWeek ==
  /\ ~Contains(call.query, <<"zuo", "tian">>)
  /\ ~Contains(call.query, <<"jin", "tian">>)
  /\ Contains(call.query, <<"zui", "jin4", "7", "tian">>) \/ Contains(call.query, <<"guo", "qu4", "yi", "zhou">>)
  /\ call.analyzed_query.time_range = TimeRange(PyNone, PyNone, PyInt(7))

\* C22: the conditions of the request text and the time window of the NLU
\* description are derived independently and nothing is de-duplicated: when
\* both recognise 昨天 the WHERE clause has the equality on date and the pair
\* >= and <= on date for that day, when both recognise 最近7天 it has two
\* lower bounds on date
C22_DatePredicatesTwice ==
  Returned("generate_sql") =>
    /\ BothYesterday =>
         WherePredicates(ret.sql) =
           <<"d", "a", "t", "e", " ", "=", " ">> \o Quoted(call.now - 1)
             \o <<" ", "A", "N", "D", " ", "d", "a", "t", "e", " ", ">", "=", " ">> \o Quoted(call.now - 1)
             \o <<" ", "A", "N", "D", " ", "d", "a", "t", "e", " ", "<", "=", " ">> \o Quoted(call.now - 1)
    /\ BothLastWeek =>
         WherePredicates(ret.sql) =
           <<"d", "a", "t", "e", " ", ">", "=", " ">> \o Quoted(call.now - 7)
             \o <<" ", "A", "N", "D", " ", "d", "a", "t", "e", " ", ">", "=", " ">> \o Quoted(call.now - 7)
             \o <<" ", "A", "N", "D", " ", "d", "a", "t", "e", " ", "<", "=", " ">> \o Quoted(call.now)

\* 昨天 in the text and in the time range the NLU describes
C22_Witness ==
  /\ Returned("generate_sql")
  /\ BothYesterday
  /\ call.response.kind = "json"
  /\ WherePredicates(ret.sql) =
       <<"d", "a", "t", "e", " ", "=", " ", "'", "2", "0", "2", "4", "-", "0", "2", "-", "2", "9", "'", " ", "A", "N", "D", " ", "d", "a", "t", "e", " ", ">", "=", " ", "'", "2", "0", "2", "4", "-", "0", "2", "-", "2", "9", "'", " ", "A", "N", "D", " ", "d", "a", "t", "e", " ", "<", "=", " ", "'", "2", "0", "2", "4", "-", "0", "2", "-", "2", "9", "'">>

\* a week in the text and in the time range the NLU describes
C22_WitnessLastWeek ==
  /\ Returned("generate_sql")
  /\ BothLastWeek
  /\ WherePredicates(ret.sql) =
       <<"d", "a", "t", "e", " ", ">", "=", " ", "'", "2", "0", "2", "4", "-", "0", "2", "-", "2", "3", "'", " ", "A", "N", "D", " ", "d", "a", "t", "e", " ", ">", "=", " ", "'", "2", "0", "2", "4", "-", "0", "2", "-", "2", "3", "'", " ", "A", "N", "D", " ", "d", "a", "t", "e", " ", "<", "=", " ", "'", "2", "0", "2", "4", "-", "0", "3", "-", "0", "1", "'">>

----------------------------------------------------------------------------
(* The envelope of a successful query *)

\* query has gone through analysis and task construction to a backend that
\* returned rows, on a connected agent
PipelineSucceeded ==
  /\ Returned("query")
  /\ agent.connected
  /\ call.backend.kind = "rows"
  /\ \E i \in 1..Len(effects) : effects[i] = "process_result"

\* C23: when the agent is connected, IR and task construction succeed and
\* the backend reports success, query returns the processed envelope with
\* success true, the formatted data, its metadata and the query_info of
\* original query, analysed query, task info and total time
C23_SuccessfulQueryEnvelope ==
  PipelineSucceeded =>
    /\ ret.exc = "none"
    /\ ret.value.success = PyBool(TRUE)
    /\ {"data", "metadata", "query_info"} \subseteq DOMAIN ret.value
    /\ DOMAIN ret.value.query_info.v =
         {"original_query", "analyzed_query", "task_info", "total_time"}
    /\ ret.value.query_info.v.original_query = PyStr(call.user_query)

\* what query returns instead: the envelope of its exception handler for the
\* AttributeError of DataTask.to_dict
C23_ToDictFailureEnvelope ==
  PipelineSucceeded =>
    ret = query_except("AttributeError", call.elapsed, call.now)

\* the pipeline has succeeded and query reports a failure
C23_Witness ==
  /\ PipelineSucceeded
  /\ ret.value.success = PyBool(FALSE)
  /\ "query_info" \notin DOMAIN ret.value

----------------------------------------------------------------------------
(* The preview of a failed sample *)

\* preview_query has executed the sample statement and the backend failed
SampleFailed ==
  /\ Returned("preview_query")
  /\ \E i \in 1..Len(effects) : effects[i] = "execute_query"
  /\ call.backend.kind = "error"

\* C24: preview_query reports success true only when the outcome of the
\* sample execution was successful; when the backend's outcome for the
\* sample statement is a failure, the envelope has success false and carries
\* the error
C24_PreviewReportsSampleFailure ==
  SampleFailed =>
    /\ ret.exc = "none"
    /\ ret.value.success = PyBool(FALSE)
    /\ "error" \in DOMAIN ret.value

\* what preview_query returns instead: success true and empty preview data
C24_FailedSampleIsSuccess ==
  SampleFailed =>
    ret = Return([success         |-> PyBool(TRUE),
                  preview_data    |-> PyDict(<<>>),
                  sample_size     |-> PyInt(call.sample_size),
                  total_estimated |-> PyStr(<<"wei", "zhi1">>)])

\* a failed sample previewed as a success
C24_Witness ==
  /\ SampleFailed
  /\ agent.connected
  /\ ret.value.success = PyBool(TRUE)
  /\ "error" \notin DOMAIN ret.value

----------------------------------------------------------------------------
(* Tasks of the IRs the analyzer produces *)

\* C25: for every request text and every NLU response, the IR analyze_query
\* produces gives for every engine type a main statement that passes
\* validation: build_task raises nothing and returns a task
C25_PipelineTaskIsBuilt ==
  Returned("build_task") =>
    /\ ret.exc = "none"
    /\ validate_sql(ret.value.sql_query).valid
    /\ ret.value.sql_query = generate_sql(call.analyzed_query, call.dialect, call.now)

\* a task for an IR with a time window, a group-by field and an aggregation
\* call
C25_Witness ==
  /\ Returned("build_task")
  /\ ret.exc = "none"
  /\ call.analyzed_query.time_range # PyNone
  /\ call.analyzed_query.aggregations # PyNone
  /\ Contains(ret.value.sql_query, <<"c", "o", "u", "n", "t", "(", "*", ")", " ", "a", "s", " ", "c", "o", "u", "n", "t", ",", " ", "p", "r", "o", "v", "i", "n", "c", "e">>)
  /\ call.dialect = <<"c", "l", "i", "c", "k", "h", "o", "u", "s", "e">>

\* a task for an IR with a condition and a group-by field, for an engine type
\* that is no dialect
C25_WitnessCondition ==
  /\ Returned("build_task")
  /\ ret.exc = "none"
  /\ call.analyzed_query.conditions # <<>>
  /\ call.analyzed_query.aggregations # PyNone
  /\ call.dialect = <<"m", "y", "s", "q", "l">>

----------------------------------------------------------------------------
(* The shape of the IRs the analyzer produces *)

\* at most one condition, at most one group-by field, and a relative window
\* of 7 or 30 days when one is set
PipelineShape(analyzed_query) ==
  /\ Len(analyzed_query.conditions) <= 1
  /\ analyzed_query.aggregations # PyNone =>
       Len(analyzed_query.aggregations.group_by) <= 1
  /\ (analyzed_query.time_range # PyNone
        /\ analyzed_query.time_range.relative_days # PyNone) =>
       analyzed_query.time_range.relative_days \in {PyInt(7), PyInt(30)}

\* C26: every IR analyze_query produces has at most one condition, at most
\* one group-by field and a relative time window of 7 or 30 days when one is
\* set; so its complexity factor is one of 1.0, 1.5, 2.0 and 3.0, and the
\* condition-count, group-by and >30-day multipliers and the clamp at 5.0
\* never take effect
C26_PipelineComplexity ==
  /\ (Returned("analyze_query") /\ ret.exc = "none") => PipelineShape(ret.value)
  /\ Returned("_calculate_complexity") =>
       /\ PipelineShape(call.analyzed_query)
       /\ ret.factor \in {Unit, (3 * Unit) \div 2, 2 * Unit, 3 * Unit}
       /\ ~ManyConditions /\ ~ManyGroups /\ ~LongWindow
       /\ ret.factor * MultiplierDen = Unit * MultiplierNum
       /\ ret.factor < 5 * Unit

\* the factor 3.0: an analytic request with a group-by field and a window of
\* 30 days
C26_Witness ==
  /\ Returned("_calculate_complexity")
  /\ ret.factor = 3 * Unit
  /\ HasAggregation /\ Analytic
  /\ Len(call.analyzed_query.aggregations.group_by) = 1
  /\ call.analyzed_query.time_range # PyNone
  /\ call.analyzed_query.time_range.relative_days = PyInt(30)

\* the factor 1.0 of an IR with a condition and a window of 7 days
C26_WitnessPlain ==
  /\ Returned("_calculate_complexity")
  /\ ret.factor = Unit
  /\ Len(call.analyzed_query.conditions) = 1
  /\ call.analyzed_query.time_range # PyNone
  /\ call.analyzed_query.time_range.relative_days = PyInt(7)

----------------------------------------------------------------------------
(* The time window of an IR built without the NLU *)

\* analyze_query has returned and the NLU raised or answered no JSON
FallbackAnalyzed ==
  /\ Returned("analyze_query")
  /\ call.response.kind # "json"

YesterdayWindow ==
  TimeRange(PyStr(strftime(call.now - 1)), PyStr(strftime(call.now - 1)), PyNone)

\* C27: on the fallback path the time window comes from the classifier's time
\* keyword alone, the first entry of the keyword list occurring in the text;
\* 最近 and 过去 precede the phrases with a number of days, so the IR never
\* has a relative window: the window is absent, or start = end = yesterday
\* (when 昨天 is the keyword, i.e. the text has 昨天 and not 今天)
C27_FallbackWindowNeverRelative ==
  FallbackAnalyzed =>
    /\ ret.exc = "none"
    /\ ret.value.time_range \in {PyNone, YesterdayWindow}
    /\ ret.value.time_range = YesterdayWindow <=>
         (Contains(call.query, <<"zuo", "tian">>) /\ ~Contains(call.query, <<"jin", "tian">>))
    /\ ret.value.time_range # PyNone =>
         ret.value.intent_result.parameters["time_range"] = <<"zuo", "tian">>

\* a fallback IR of a request for the last 7 days: keyword 最近, no window
C27_Witness ==
  /\ FallbackAnalyzed
  /\ Contains(call.query, <<"zui", "jin4", "7", "tian">>)
  /\ ret.value.intent_result.parameters["time_range"] = <<"zui", "jin4">>
  /\ ret.value.time_range = PyNone

\* a fallback IR with the window of yesterday
C27_WitnessYesterday ==
  /\ FallbackAnalyzed
  /\ ret.value.time_range = YesterdayWindow

\* a fallback IR of a request naming yesterday after today: keyword 今天, no
\* window
C27_WitnessToday ==
  /\ FallbackAnalyzed
  /\ Contains(call.query, <<"zuo", "tian">>)
  /\ ret.value.intent_result.parameters["time_range"] = <<"jin", "tian">>
  /\ ret.value.time_range = PyNone

----------------------------------------------------------------------------
(* The confidence of an IR built without the NLU *)

\* the analysis substituted for the NLU's answer
FallbackAnalysis ==
  _llm_deep_analysis(call.query, recognize_intent(call.query), call.response)

\* C29: on the fallback path the substituted analysis has a non-empty data
\* entity, conditions description and aggregations description, so the
\* combined confidence of every fallback IR is min(intent confidence + 0.4,
\* 1.0): all three boosts although the NLU contributed nothing
C29_FallbackConfidence ==
  FallbackAnalyzed =>
    /\ \A key \in {"data_entity", "conditions", "aggregations"} :
         /\ key \in DOMAIN FallbackAnalysis.v
         /\ FallbackAnalysis.v[key].t = "str"
         /\ FallbackAnalysis.v[key].v # <<>>
    /\ ret.exc = "none"
    /\ ret.value.confidence_score =
         Min2(ret.value.intent_result.confidence + (4 * Unit) \div 10, Unit)

\* the NLU raised on a request without keyword and entity: 0.5 + 0.4 = 0.9
C29_Witness ==
  /\ FallbackAnalyzed
  /\ call.response.kind = "raise"
  /\ FallbackAnalysis.v["data_entity"] = PyStr(<<"u", "n", "k", "n", "o", "w", "n">>)
  /\ ret.value.intent_result.confidence = Unit \div 2
  /\ ret.value.confidence_score = (9 * Unit) \div 10

\* a reply that is no JSON, on a request naming an entity and a keyword
C29_WitnessEntity ==
  /\ FallbackAnalyzed
  /\ call.response.kind = "text"
  /\ FallbackAnalysis.v["data_entity"] = PyStr(<<"o", "r", "d", "e", "r">>)
  /\ ret.value.intent_result.confidence < Unit \div 2
  /\ ret.value.confidence_score = ret.value.intent_result.confidence + (4 * Unit) \div 10

----------------------------------------------------------------------------
(* Specification of the connection lifecycle of one agent *)

\* with-blocks on the agent are nested at most MaxBlocks deep
MaxBlocks == 2

\* the exception a with-block is left with, "none" for a normal exit
BlockExits == {"none", "RuntimeError", "KeyboardInterrupt"}

\* locals.blocks: the with-blocks entered and not yet left
InitLifecycle ==
  /\ agent \in {BigDataAgent(e) : e \in EngineTypes}
  /\ call = Idle
  /\ ret = Pending
  /\ effects = <<>>
  /\ locals = [blocks |-> 0]

LifecycleConnect ==
  /\ \E library_installed \in BOOLEAN, accepted \in BOOLEAN :
       LET r == connect(agent, library_installed, accepted)
       IN  /\ agent' = r.self
           /\ call' = [op |-> "connect", library_installed |-> library_installed,
                       accepted |-> accepted]
           /\ ret' = Return(PyBool(r.result))
  /\ effects' = <<>>
  /\ UNCHANGED locals

LifecycleDisconnect ==
  /\ agent' = disconnect(agent)
  /\ call' = [op |-> "disconnect"]
  /\ ret' = Return(PyNone)
  /\ effects' = <<>>
  /\ UNCHANGED locals

LifecycleQuery ==
  /\ \E q \in AgentQueries, f \in AgentFormats, r \in AgentResponses,
        b \in BackendOutcomes, e \in Durations, n \in NowDays :
       QueryReturns(query(agent, q, f, r, b, e, n),
                    [op |-> "query", user_query |-> q, output_format |-> f,
                     response |-> r, backend |-> b, elapsed |-> e, now |-> n])
  /\ UNCHANGED <<agent, locals>>

Enter ==
  /\ locals.blocks < MaxBlocks
  /\ \E library_installed \in BOOLEAN, accepted \in BOOLEAN :
       /\ agent' = __enter__(agent, library_installed, accepted)
       /\ call' = [op |-> "__enter__", library_installed |-> library_installed,
                   accepted |-> accepted]
  /\ ret' = Return(PyStr(<<"s", "e", "l", "f">>))
  /\ effects' = <<>>
  /\ locals' = [blocks |-> locals.blocks + 1]

Exit ==
  /\ locals.blocks > 0
  /\ \E exc_type \in BlockExits :
       LET r == __exit__(agent, exc_type)
       IN  /\ agent' = r.self
           /\ call' = [op |-> "__exit__", exc_type |-> exc_type]
           /\ ret' = Return(r.result)
  /\ effects' = <<>>
  /\ locals' = [blocks |-> locals.blocks - 1]

NextLifecycle ==
  LifecycleConnect \/ LifecycleDisconnect \/ LifecycleQuery \/ Enter \/ Exit

SpecLifecycle == InitLifecycle /\ [][NextLifecycle]_vars

\* C28: in every state reachable by connect, disconnect, query and with-block
\* entry and exit on one agent, connected = true implies that an engine
\* instance is held and that its most recent connect() returned true (the
\* engine's own flag, which only its connect sets to true); after disconnect
\* and after a with-block exit, normal or exceptional, connected = false and
\* no engine instance is held
C28_ConnectedHoldsLiveEngine ==
  /\ agent.connected =>
       /\ agent.execution_engine # PyNone
       /\ agent.execution_engine.connected
       /\ agent.execution_engine.type = agent.engine_type
  /\ (Returned("disconnect") \/ Returned("__exit__")) =>
       /\ ~agent.connected
       /\ agent.execution_engine = PyNone
  /\ (Returned("connect") \/ Returned("__enter__")) =>
       (agent.connected <=> (call.library_installed /\ call.accepted
                               /\ agent.engine_type \in _engines))

\* a with-block left by an exception
C28_Witness ==
  /\ Returned("__exit__")
  /\ call.exc_type = "RuntimeError"
  /\ locals.blocks = 0
  /\ ~agent.connected
  /\ agent.execution_engine = PyNone

\* a failed connect on an agent that holds a connected engine: the flag is
\* false and the earlier engine is still held
C28_WitnessStaleEngine ==
  /\ Returned("connect")
  /\ ~call.library_installed
  /\ ~agent.connected
  /\ agent.execution_engine # PyNone
  /\ agent.execution_engine.connected

\* a query answered by the engine inside a with-block
C28_WitnessQueryInBlock ==
  /\ Returned("query")
  /\ locals.blocks = 1
  /\ agent.connected
  /\ effects # <<>>

----------------------------------------------------------------------------
(* Specification of SparkEngine.execute_async racing with disconnect: agent  *)
(* holds the attributes of the engine, call, ret and locals the submitted    *)
(* call, the future and the frame of each query (locals[0] is the frame of   *)
(* the thread that disconnects), and effects what happened to the session:   *)
(* its stop and the fetches of rows from it                                  *)

\* as many queries are submitted as the pool has workers
Futures == 1..max_workers

\* the cluster answers with rows, or raises in sql() or in collect()
\* (raises_in matters for an error only)
AsyncCalls ==
  { c \in [op : {"execute_query"}, sql : {<<"S", "E", "L", "E", "C", "T", " ", "*", " ", "F", "R", "O", "M", " ", "u", "s", "e", "r", "_", "i", "n", "f", "o">>}, task : {PyNone},
           backend : BackendOutcomes, raises_in : {"sql", "collect"}] :
      c.backend.kind = "rows" => c.raises_in = "collect" }

InitAsync ==
  /\ agent = ConnectedSpark
  /\ call = [f \in Futures |-> Idle]
  /\ ret = [f \in Futures |-> Pending]
  /\ locals = [k \in Futures \cup {0} |-> IF k = 0 THEN [pc |-> "idle"] ELSE [pc |-> "none"]]
  /\ effects = <<>>

\* the session has been stopped
Stopped == \E i \in 1..Len(effects) : effects[i].event = "stop"

\* execute_async(sql, task): the call is handed to the pool, whose future is
\* returned
ExecuteAsync ==
  \E f \in Futures, c \in AsyncCalls :
    /\ locals[f].pc = "none"
    /\ \A g \in 1..(f - 1) : locals[g].pc # "none"
    /\ call' = [call EXCEPT ![f] = c]
    /\ locals' = [locals EXCEPT ![f] = [pc |-> "queued"]]
    /\ UNCHANGED <<agent, ret, effects>>

\* a worker of the pool takes a step of the call of future f; the future
\* completes with what the call returns or raises
ExecuteQueryStepOf(f) ==
  /\ locals[f].pc \notin {"none", "done"}
  /\ LET step == execute_query_step(agent, call[f], locals[f], Stopped)
     IN  /\ locals' = [locals EXCEPT ![f] = step.frame]
         /\ ret' = [ret EXCEPT ![f] = IF step.frame.pc = "done" THEN step.frame.result
                                       ELSE Pending]
         /\ effects' = IF step.collected
                         THEN Append(effects, [event |-> "collect", future |-> f])
                         ELSE effects
  /\ UNCHANGED <<agent, call>>

ExecuteQueryStep == \E f \in Futures : ExecuteQueryStepOf(f)

\* another thread takes a step of disconnect()
DisconnectStep ==
  /\ \E stop_raises \in BOOLEAN :
       LET step == spark_disconnect_step(agent, locals[0], stop_raises)
       IN  /\ agent' = step.self
           /\ locals' = [locals EXCEPT ![0] = step.frame]
           /\ effects' = IF step.stops
                           THEN Append(effects, [event |-> "stop", future |-> 0])
                           ELSE effects
  /\ UNCHANGED <<call, ret>>

NextAsync == ExecuteAsync \/ ExecuteQueryStep \/ DisconnectStep

SpecAsync == InitAsync /\ [][NextAsync]_vars

\* the workers of the pool run the calls handed to it
SpecAsyncFair == SpecAsync /\ \A f \in Futures : WF_vars(ExecuteQueryStepOf(f))

\* the rows of future f were fetched before the session was stopped
FetchedFromLiveSession(f) ==
  \E i \in 1..Len(effects) :
    /\ effects[i] = [event |-> "collect", future |-> f]
    /\ \A j \in 1..(i - 1) : effects[j].event # "stop"

\* future f has completed with an outcome map that carries a success flag,
\* and an error when the flag is false; it is true only if the rows were
\* fetched from the running session
CompletedWithOutcome(f) ==
  /\ ret[f] # Pending
  /\ ret[f].exc = "none"
  /\ "success" \in DOMAIN ret[f].value
  /\ ret[f].value.success \in {PyBool(TRUE), PyBool(FALSE)}
  /\ ret[f].value.success = PyBool(FALSE) =>
       /\ ret[f].value.error.t = "str"
       /\ ret[f].value.error.v # <<>>
  /\ ret[f].value.success = PyBool(TRUE) => FetchedFromLiveSession(f)

\* C30: for execute_async racing with disconnect or with a second async
\* query on the same engine, under every interleaving the submitted future
\* completes, with an outcome map carrying a success flag (false with an
\* error when the session was torn down before or during the execution); no
\* exception escapes the worker thread
C30_AsyncCompletesWithOutcome ==
  /\ [](\A f \in Futures : locals[f].pc = "done" => CompletedWithOutcome(f))
  /\ \A f \in Futures : (locals[f].pc = "queued") ~> (locals[f].pc = "done")

\* the session was unset between the tests of execute_query and its use: the
\* AttributeError is reported in the outcome map
C30_Witness ==
  /\ locals[1].pc = "done"
  /\ ret[1].exc = "none"
  /\ ret[1].value.success = PyBool(FALSE)
  /\ ret[1].value.error = PyStr(<<"S", "Q", "L", "zhi2", "xing2", "shi5", "bai", ":", " ", "'", "N", "o", "n", "e", "T", "y", "p", "e", "'", " ", "o", "b", "j", "e", "c", "t", " ", "h", "a", "s", " ", "n", "o", " ", "a", "t", "t", "r", "i", "b", "u", "t", "e", " ", "'", "s", "q", "l", "'">>)
  /\ locals[0].pc = "unflag"

\* two queries on the same engine: one fetched its rows, then the session was
\* stopped and the other failed in collect()
C30_WitnessSecondQuery ==
  /\ locals[1].pc = "done" /\ locals[2].pc = "done"
  /\ ret[1].value.success = PyBool(TRUE)
  /\ ret[2].value.success = PyBool(FALSE)
  /\ call[2].backend.kind = "rows"
  /\ ret[2].value.error = PyStr(<<"S", "Q", "L", "zhi2", "xing2", "shi5", "bai", ":", " ", "s", "t", "o", "p", "p", "e", "d">>)

====
